---------------------------- MODULE Spec2Model ----------------------------
(***************************************************************************)
(* Model of interactive_plotting/bokeh_plots.py: the reactive scripts     *)
(* (histogram rebinning, threshold categorization, distance highlight),   *)
(* the colour mapping resolver and the kernel-expression evaluator.       *)
(*                                                                         *)
(* The scripts run in JavaScript, whose numbers are IEEE-754 binary64.    *)
(* Every number of a snapshot is modelled as such a double: a finite      *)
(* non-negative value is held as the natural number value * 2^FracBits    *)
(* (little-endian limbs in base 2^15), and every arithmetic operation     *)
(* rounds its exact result to MantBits significant bits, ties to even.    *)
(***************************************************************************)
EXTENDS Integers, Sequences, FiniteSets

(***************************************************************************)
(* Natural numbers of arbitrary size.                                      *)
(***************************************************************************)
Base == 2^15

Limb(a, i) == IF i <= Len(a) THEN a[i] ELSE 0

RECURSIVE BNorm(_)
BNorm(a) ==
    IF a = <<>> THEN <<>>
    ELSE IF a[Len(a)] = 0 THEN BNorm(SubSeq(a, 1, Len(a) - 1))
    ELSE a

RECURSIVE BFromInt(_)
BFromInt(k) == IF k = 0 THEN <<>> ELSE <<k % Base>> \o BFromInt(k \div Base)

RECURSIVE BAddC(_, _, _, _)
BAddC(a, b, i, c) ==
    IF i > Len(a) /\ i > Len(b)
    THEN (IF c = 0 THEN <<>> ELSE <<c>>)
    ELSE LET s == Limb(a, i) + Limb(b, i) + c
         IN  <<s % Base>> \o BAddC(a, b, i + 1, s \div Base)

BAdd(a, b) == BAddC(a, b, 1, 0)

\* a - b for a >= b
RECURSIVE BSubC(_, _, _, _)
BSubC(a, b, i, c) ==
    IF i > Len(a) THEN <<>>
    ELSE LET s == a[i] - Limb(b, i) - c
         IN  IF s < 0 THEN <<s + Base>> \o BSubC(a, b, i + 1, 1)
                      ELSE <<s>> \o BSubC(a, b, i + 1, 0)

BSub(a, b) == BNorm(BSubC(a, b, 1, 0))

\* -1, 0, 1 as a < b, a = b, a > b (both normalised)
RECURSIVE BCmpFrom(_, _, _)
BCmpFrom(a, b, i) ==
    IF i = 0 THEN 0
    ELSE IF a[i] < b[i] THEN -1
    ELSE IF a[i] > b[i] THEN 1
    ELSE BCmpFrom(a, b, i - 1)

BCmp(a, b) ==
    IF Len(a) < Len(b) THEN -1
    ELSE IF Len(a) > Len(b) THEN 1
    ELSE BCmpFrom(a, b, Len(a))

\* a * k for 0 <= k < Base
RECURSIVE BMulSmallC(_, _, _, _)
BMulSmallC(a, k, i, c) ==
    IF i > Len(a)
    THEN (IF c = 0 THEN <<>> ELSE <<c>>)
    ELSE LET p == a[i] * k + c
         IN  <<p % Base>> \o BMulSmallC(a, k, i + 1, p \div Base)

BMulSmall(a, k) == IF k = 0 THEN <<>> ELSE BMulSmallC(a, k, 1, 0)

BShiftLimbs(a, w) == IF a = <<>> THEN <<>> ELSE [i \in 1..w |-> 0] \o a

RECURSIVE BMulFrom(_, _, _)
BMulFrom(a, b, i) ==
    IF i > Len(b) THEN <<>>
    ELSE BAdd(BShiftLimbs(BMulSmall(a, b[i]), i - 1), BMulFrom(a, b, i + 1))

BMul(a, b) == BMulFrom(a, b, 1)

\* <<a div k, a mod k>> for 0 < k < Base
RECURSIVE BDivSmallFrom(_, _, _, _)
BDivSmallFrom(a, k, i, r) ==
    IF i = 0 THEN <<<<>>, r>>
    ELSE LET t    == r * Base + a[i]
             rest == BDivSmallFrom(a, k, i - 1, t % k)
         IN  <<rest[1] \o <<t \div k>>, rest[2]>>

BDivSmall(a, k) ==
    LET dv == BDivSmallFrom(a, k, Len(a), 0) IN <<BNorm(dv[1]), dv[2]>>

RECURSIVE BitLenInt(_)
BitLenInt(x) == IF x = 0 THEN 0 ELSE 1 + BitLenInt(x \div 2)

LimbBits == BitLenInt(Base) - 1

BitLen(a) == IF a = <<>> THEN 0 ELSE LimbBits * (Len(a) - 1) + BitLenInt(a[Len(a)])

BShl(a, s) == BShiftLimbs(BMulSmall(a, 2^(s % LimbBits)), s \div LimbBits)

BShr(a, s) ==
    IF s \div LimbBits >= Len(a) THEN <<>>
    ELSE BDivSmall(SubSeq(a, s \div LimbBits + 1, Len(a)), 2^(s % LimbBits))[1]

IsOdd(a) == a # <<>> /\ a[1] % 2 = 1

(***************************************************************************)
(* IEEE-754 binary64 numbers, as far as the scripts use them: NaN, the    *)
(* infinities and the finite values.  A finite value v is its sign s and  *)
(* the natural number n = |v| * 2^FracBits; zero carries the sign 1 (the  *)
(* scripts never tell -0 from 0).  No value of the model is subnormal or  *)
(* beyond the largest double.                                              *)
(***************************************************************************)
MantBits == 53
FracBits == 6 * LimbBits

NaN == [k |-> "nan", s |-> 1, n |-> <<>>]
Inf(s) == [k |-> "inf", s |-> s, n |-> <<>>]
Infinity == Inf(1)
Fin(s, n) == [k |-> "fin", s |-> IF n = <<>> THEN 1 ELSE s, n |-> n]
IsNaN(x) == x.k = "nan"
IsFin(x) == x.k = "fin"
Zero == Fin(1, <<>>)
FNeg(x) == IF IsNaN(x) \/ x = Zero THEN x ELSE [x EXCEPT !.s = 0 - x.s]

\* n, of which the exact value lies above by less than one unit when sticky,
\* rounded to MantBits significant bits, ties to even
\* (kept: the bits that stay; half: the dropped bits against half a unit)
RoundUp(kept, drop, half, sticky) ==
    BShl(IF half > 0 \/ (half = 0 /\ (sticky \/ IsOdd(kept)))
         THEN BAdd(kept, <<1>>) ELSE kept, drop)

RoundKept(n, kept, drop, sticky) ==
    RoundUp(kept, drop, BCmp(BSub(n, BShl(kept, drop)), BShl(<<1>>, drop - 1)), sticky)

RoundSig(n, sticky) ==
    IF BitLen(n) <= MantBits THEN n
    ELSE RoundKept(n, BShr(n, BitLen(n) - MantBits), BitLen(n) - MantBits, sticky)

FromInt(i) ==
    IF i < 0 THEN Fin(-1, BShl(BFromInt(0 - i), FracBits))
    ELSE Fin(1, BShl(BFromInt(i), FracBits))

\* x + y
\* the exact sum of the finite x and y: <<sign, magnitude>>
ExactSum(x, y) ==
    IF x.s = y.s THEN <<x.s, BAdd(x.n, y.n)>>
    ELSE IF BCmp(x.n, y.n) >= 0 THEN <<x.s, BSub(x.n, y.n)>>
    ELSE <<y.s, BSub(y.n, x.n)>>

Rounded(sm) == Fin(sm[1], RoundSig(sm[2], FALSE))

FAdd(x, y) ==
    IF IsNaN(x) \/ IsNaN(y) THEN NaN
    ELSE IF ~IsFin(x) THEN (IF ~IsFin(y) /\ y.s # x.s THEN NaN ELSE x)
    ELSE IF ~IsFin(y) THEN y
    ELSE Rounded(ExactSum(x, y))

\* x - y
FSub(x, y) == FAdd(x, FNeg(y))

\* x * y
FMul(x, y) ==
    IF IsNaN(x) \/ IsNaN(y) THEN NaN
    ELSE IF ~IsFin(x) \/ ~IsFin(y)
         THEN (IF x = Zero \/ y = Zero THEN NaN ELSE Inf(x.s * y.s))
    ELSE Fin(x.s * y.s, BShr(RoundSig(BMul(x.n, y.n), FALSE), FracBits))

\* the next i >= 1 quotient bits of r / b for r < b: <<quotient, remainder>>
\* (the bits are produced by halves, to keep the evaluation shallow)
RECURSIVE DivBits(_, _, _)
DivBits(r, b, i) ==
    IF i = 1
    THEN LET r2 == BAdd(r, r)
         IN  IF BCmp(r2, b) >= 0 THEN <<<<1>>, BSub(r2, b)>> ELSE <<<<>>, r2>>
    ELSE LET upper == DivBits(r, b, i \div 2)
             lower == DivBits(upper[2], b, i - i \div 2)
         IN  <<BAdd(BShl(upper[1], i - i \div 2), lower[1]), lower[2]>>

\* a / b for naturals a, b > 0, as value * 2^FracBits rounded to MantBits bits
\* (aa, bb: a and b shifted to the same bit length; ge: aa >= bb, the leading
\* quotient bit; qr: the MantBits + 2 bits after it; sh: the scale of the result)
DivScale(sig, sh) == IF sh >= 0 THEN BShl(sig, sh) ELSE BShr(sig, 0 - sh)

DivRound(qr, ge, sh) ==
    DivScale(RoundSig(IF ge THEN BAdd(qr[1], BShl(<<1>>, MantBits + 2)) ELSE qr[1],
                      qr[2] # <<>>), sh)

DivQuot(aa, bb, ge, sh) ==
    DivRound(DivBits(IF ge THEN BSub(aa, bb) ELSE aa, bb, MantBits + 2), ge, sh)

DivAligned(aa, bb, sh) == DivQuot(aa, bb, BCmp(aa, bb) >= 0, sh)

BDivRound(a, b) ==
    DivAligned(IF BitLen(b) > BitLen(a) THEN BShl(a, BitLen(b) - BitLen(a)) ELSE a,
               IF BitLen(a) > BitLen(b) THEN BShl(b, BitLen(a) - BitLen(b)) ELSE b,
               BitLen(a) - BitLen(b) - (MantBits + 2) + FracBits)

\* x / y
FDiv(x, y) ==
    IF IsNaN(x) \/ IsNaN(y) THEN NaN
    ELSE IF ~IsFin(x) THEN (IF IsFin(y) THEN Inf(x.s * y.s) ELSE NaN)
    ELSE IF ~IsFin(y) THEN Zero
    ELSE IF y = Zero THEN (IF x = Zero THEN NaN ELSE Inf(x.s))
    ELSE IF x = Zero THEN Zero
    ELSE Fin(x.s * y.s, BDivRound(x.n, y.n))

\* -1, 0, 1 as x < y, x = y, x > y, for x and y other than NaN
FCmp(x, y) ==
    IF x.s # y.s THEN x.s
    ELSE IF IsFin(x) /\ IsFin(y) THEN x.s * BCmp(x.n, y.n)
    ELSE IF IsFin(x) THEN 0 - x.s
    ELSE IF IsFin(y) THEN x.s
    ELSE 0

\* the comparisons of the scripts: false whenever an operand is NaN
FLe(x, y) == ~IsNaN(x) /\ ~IsNaN(y) /\ FCmp(x, y) <= 0
FGe(x, y) == FLe(y, x)
FLt(x, y) == ~IsNaN(x) /\ ~IsNaN(y) /\ FCmp(x, y) < 0

\* the double nearest to the decimal k / 10 (what reading "0.9" gives)
Tenths(k) == FDiv(FromInt(k), FromInt(10))

(***************************************************************************)
(* State.  One program state holds one plot or one helper call: the       *)
(* dataset it reads (adata), the call's parameters (args), the snapshots  *)
(* (orig, source, col_ds), the widgets (slider, inputs), the colour       *)
(* mapper, the outcome of a helper call (result) and the last event       *)
(* handled.  A part that a view does not have holds None.                 *)
(***************************************************************************)
VARIABLES
    adata,      \* the dataset columns the plot reads
    args,       \* the parameters of the call
    orig,       \* ColumnDataSource `orig`: the original rows
    source,     \* ColumnDataSource `source` (`ds` in link_plot)
    slider,     \* the Slider widget
    inputs,     \* the TextInput widgets, a pair per category of the script
    mapper,     \* the colour mapper
    col_ds,     \* ColumnDataSource `col_ds` of link_plot: the root row
    result,     \* what a helper call returned or raised
    event       \* the last event handled ("none" before the first)

vars == <<adata, args, orig, source, slider, inputs, mapper, col_ds, result, event>>

None == "None"

(***************************************************************************)
(* Bounds of the explored inputs.                                          *)
(***************************************************************************)
MaxLen == 2         \* rows of a generated sample array
MaxBins == 3        \* largest bin count explored
MaxStep == 3        \* sample values are the doubles nearest 0, 0.3 .. 0.3 * MaxStep
MaxCats == 2        \* declared categories, and colours of the longest palette
MaxEvents == 2      \* widget events handled in one behaviour

Range(f) == {f[i] : i \in DOMAIN f}
Min2(a, b) == IF a <= b THEN a ELSE b
Max2(a, b) == IF a >= b THEN a ELSE b

\* the array holding f[1], f[2], ..: the elements are computed once, when the
\* array is built, as the elements of an array of the program are
Array(f) == f \o <<>>

RECURSIVE SumSeq(_)
SumSeq(q) == IF q = <<>> THEN 0 ELSE q[1] + SumSeq(Tail(q))

\* the array of the example of the specification: [1, 2, 2, 3, 4, 10]
ExampleTenths == <<10, 20, 20, 30, 40, 100>>

\* sample values, in tenths: a grid that holds the pair 0 and 0.9
GridTenths == {3 * k : k \in 0..MaxStep}

\* sample arrays, in tenths: every array of 1..MaxLen grid values, in every
\* order, and the example
SampleTenths ==
    UNION {[1..len -> GridTenths] : len \in 1..MaxLen} \cup {ExampleTenths}

ToDoubles(tenths) == Array([i \in DOMAIN tenths |-> Tenths(tenths[i])])

\* the steps of a script that touch a snapshot: an assignment into it (or a
\* sort of one of its columns in place), and <snapshot>.change.emit()
Write(on) == [op |-> "write", on |-> on]
Emit(on) == [op |-> "emit", on |-> on]

\* the event record: the kind of the last widget event handled, how many
\* were handled, and the steps of the scripts the last one ran
NoEvent == [kind |-> "none", count |-> 0, log |-> <<>>]
Ran(kind, log) == [kind |-> kind, count |-> event.count + 1, log |-> log]
Handled(kind) == Ran(kind, <<>>)

(***************************************************************************)
(* numpy.histogram(values, density=True, bins=b) for an integer b: the    *)
(* b + 1 edges of numpy.linspace over [min, max] (widened by 0.5 on both  *)
(* sides when min = max), half-open bins of which the last is closed, and *)
(* the density count / width / total.                                     *)
(***************************************************************************)
FMin(q) == CHOOSE v \in Range(q) : \A w \in Range(q) : FLe(v, w)
FMax(q) == CHOOSE v \in Range(q) : \A w \in Range(q) : FLe(w, v)

OuterEdges(lo, hi) ==
    IF lo = hi THEN <<FSub(lo, Tenths(5)), FAdd(hi, Tenths(5))>> ELSE <<lo, hi>>

Linspace(first, last, npstep, b) ==
    Array([i \in 1..(b + 1) |->
              IF i = b + 1 THEN last ELSE FAdd(FMul(FromInt(i - 1), npstep), first)])

NpEdgesOver(rng, b) ==
    Linspace(rng[1], rng[2], FDiv(FSub(rng[2], rng[1]), FromInt(b)), b)

NpEdges(values, b) == NpEdgesOver(OuterEdges(FMin(values), FMax(values)), b)

InBin(edges, v, j) ==
    /\ FLe(edges[j], v)
    /\ IF j = Len(edges) - 1 THEN FLe(v, edges[j + 1]) ELSE FLt(v, edges[j + 1])

NpCounts(values, edges) ==
    Array([j \in 1..(Len(edges) - 1) |->
              Cardinality({i \in DOMAIN values : InBin(edges, values[i], j)})])

NpDensity(counts, edges) ==
    Array([j \in DOMAIN counts |->
              FDiv(FDiv(FromInt(counts[j]), FSub(edges[j + 1], edges[j])),
                   FromInt(SumSeq(counts)))])

NpHistogramOver(values, edges) ==
    [hist    |-> NpDensity(NpCounts(values, edges), edges),
     l_edges |-> SubSeq(edges, 1, Len(edges) - 1),
     r_edges |-> SubSeq(edges, 2, Len(edges))]

NpHistogram(values, b) == NpHistogramOver(values, NpEdges(values, b))

(***************************************************************************)
(* _inter_hist_js_code: the histogram rebinning script.                    *)
(***************************************************************************)
\* x.sort((a, b) => a - b): ascending, by insertion
RECURSIVE InsertAsc(_, _)
InsertAsc(q, v) ==
    IF q = <<>> THEN <<v>>
    ELSE IF FLt(v, q[1]) THEN <<v>> \o q
    ELSE <<q[1]>> \o InsertAsc(Tail(q), v)

RECURSIVE SortAsc(_)
SortAsc(q) ==
    IF q = <<>> THEN <<>> ELSE InsertAsc(SortAsc(SubSeq(q, 1, Len(q) - 1)), q[Len(q)])

\* bin_size = (x[x.length - 1] - x[0]) / n_bins
BinSize(x, n_bins) == FDiv(FSub(x[Len(x)], x[1]), FromInt(n_bins))

\* x[0] + bin_size * i and x[0] + bin_size * (i + 1), for i = 0 .. n_bins - 1
LEdges(x, bin_size, n_bins) ==
    Array([j \in 1..n_bins |-> FAdd(x[1], FMul(bin_size, FromInt(j - 1)))])

REdges(x, bin_size, n_bins) ==
    Array([j \in 1..n_bins |-> FAdd(x[1], FMul(bin_size, FromInt(j)))])

\* FirstBin with the test x < r_edges[j] in place of x <= r_edges[j]
FirstBinBelow(v, r_edges) ==
    IF \E j \in DOMAIN r_edges : FLt(v, r_edges[j])
    THEN CHOOSE j \in DOMAIN r_edges :
            /\ FLt(v, r_edges[j])
            /\ \A h \in 1..(j - 1) : ~FLt(v, r_edges[h])
    ELSE 0

\* the inner loop: the first bin j with x <= r_edges[j]; 0 when the loop ends without one
FirstBin(v, r_edges) ==
    IF \E j \in DOMAIN r_edges : FLe(v, r_edges[j])
    THEN CHOOSE j \in DOMAIN r_edges :
            /\ FLe(v, r_edges[j])
            /\ \A h \in 1..(j - 1) : ~FLe(v, r_edges[h])
    ELSE 0

\* indices[j]: the positions pushed to bin j, in the order of the outer loop
\* (positions count from 1 here and from 0 in the script)
Indices(x, r_edges) ==
    Array([j \in DOMAIN r_edges |->
              SelectSeq(Array([i \in DOMAIN x |-> i]),
                        LAMBDA i : FirstBin(x[i], r_edges) = j)])

\* hist[j] before it is made a density: one per position pushed
Counts(indices) == Array([j \in DOMAIN indices |-> Len(indices[j])])

\* Density without the division by the total count
DensityPerWidth(count, delta, sum) == FDiv(FromInt(count), delta)

\* c / deltas[i] / sum
Density(count, delta, sum) == FDiv(FDiv(FromInt(count), delta), FromInt(sum))

Hist(counts, l_edges, r_edges) ==
    Array([j \in DOMAIN counts |->
              Density(counts[j], FSub(r_edges[j], l_edges[j]), SumSeq(counts))])

\* The script: what it leaves in orig.data['values'] (the array it sorted in
\* place) and in the four columns of source it assigns.
InterHistBins(x, l_edges, r_edges, indices) ==
    [values  |-> x,
     hist    |-> Hist(Counts(indices), l_edges, r_edges),
     l_edges |-> l_edges,
     r_edges |-> r_edges,
     indices |-> indices]

InterHistEdges(x, l_edges, r_edges) ==
    InterHistBins(x, l_edges, r_edges, Indices(x, r_edges))

InterHistSized(x, bin_size, n_bins) ==
    InterHistEdges(x, LEdges(x, bin_size, n_bins), REdges(x, bin_size, n_bins))

InterHistSorted(x, n_bins) == InterHistSized(x, BinSize(x, n_bins), n_bins)

InterHist(values, n_bins) == InterHistSorted(SortAsc(values), n_bins)

\* source.data[..] = ..: the four columns assigned, the other columns kept
AssignedColumns == {"hist", "l_edges", "r_edges", "indices"}

Assigned(src, out) ==
    [c \in (DOMAIN src) \cup AssignedColumns |->
        IF c \in AssignedColumns THEN out[c] ELSE src[c]]

SortedInPlace(org, out) == [org EXCEPT !.values = out.values]

\* the steps of the rebinning script: the sort, the four assignments, the emit
RebinLog ==
    <<Write("orig"), Write("source"), Write("source"), Write("source"), Write("source"),
      Emit("source")>>

(***************************************************************************)
(* thresholding_hist: the threshold-categorization script.                 *)
(***************************************************************************)
\* the texts of numbers: what f'{start}' writes for the float k / 10
DecimalTexts ==
    <<"0.0", "0.1", "0.2", "0.3", "0.4", "0.5", "0.6", "0.7", "0.8", "0.9",
      "1.0", "1.1", "1.2", "1.3", "1.4", "1.5">>

FormatNumber(k) == DecimalTexts[k + 1]

\* parseFloat(text): NaN for a text that holds no number
ParseFloat(text) ==
    IF \E k \in DOMAIN DecimalTexts : DecimalTexts[k] = text
    THEN Tenths((CHOOSE k \in DOMAIN DecimalTexts : DecimalTexts[k] = text) - 1)
    ELSE NaN

\* zip(palette, categories.items()): the categories that get a pair of inputs
\* and a branch of the script
ScriptCategories(a) == SubSeq(a.categories, 1, Min2(a.palette, Len(a.categories)))

\* min_{cat}, max_{cat} = parseFloat(inp_min_{cat}.value), parseFloat(inp_max_{cat}.value)
ParsedBounds(inps) ==
    Array([c \in DOMAIN inps |->
              [min |-> ParseFloat(inps[c].min), max |-> ParseFloat(inps[c].max)]])

\* an element of a column of the script; a position past its end reads
\* undefined, NaN in the arithmetic
At(col, i) == IF i \in DOMAIN col THEN col[i] ELSE NaN

\* LoopBins over the length of the category column in place of the hist column
LoopCategories(src) == 1..Len(src.category)

\* for (var i = 0; i < source.data['hist'].length; i++)
LoopBins(src) == 1..Len(src.hist)

\* mid_{cat} = (r_edges[i] - l_edges[i]) / 2
Mid(l, r) == FDiv(FSub(r, l), FromInt(2))

\* l_edges[i] + mid and r_edges[i] - mid
Trimmed(l, r, mid) == [lo |-> FAdd(l, mid), hi |-> FSub(r, mid)]

TrimmedBins(src) ==
    Array([i \in LoopBins(src) |->
              Trimmed(At(src.l_edges, i), At(src.r_edges, i),
                      Mid(At(src.l_edges, i), At(src.r_edges, i)))])

\* l_edges[i] + mid >= min && r_edges[i] - mid <= max
Matches(trim, bound) == FGe(trim.lo, bound.min) /\ FLe(trim.hi, bound.max)

\* the if / else if / else chain of one bin
BinCategory(trim, cats, bounds) ==
    IF \E c \in DOMAIN cats : Matches(trim, bounds[c])
    THEN cats[CHOOSE c \in DOMAIN cats :
                 /\ Matches(trim, bounds[c])
                 /\ \A d \in 1..(c - 1) : ~Matches(trim, bounds[d])].name
    ELSE "default"

Labels(trims, cats, bounds) ==
    Array([i \in DOMAIN trims |-> BinCategory(trims[i], cats, bounds)])

\* source.data['indices'][i], the positions of bin i
IndicesAt(src, i) == IF i \in DOMAIN src.indices THEN src.indices[i] ELSE <<>>

\* the bins of the loop that hold position ix, and the last of them
BinsHolding(src, label, ix) == {i \in DOMAIN label : ix \in Range(IndicesAt(src, i))}
LastOf(S) == CHOOSE i \in S : \A h \in S : h <= i

\* source.data['category'][i] = cat, and orig.data['category'][ix] = cat for
\* the positions ix of indices[i]; a later bin overwrites an earlier one
Relabel(src, org, label) ==
    [source |-> [src EXCEPT !.category =
                    Array([i \in 1..Max2(Len(src.category), Len(label)) |->
                              IF i \in DOMAIN label THEN label[i] ELSE src.category[i]])],
     orig   |-> [org EXCEPT !.category =
                    Array([ix \in DOMAIN org.category |->
                              IF BinsHolding(src, label, ix) = {} THEN org.category[ix]
                              ELSE label[LastOf(BinsHolding(src, label, ix))]])]]

ThresholdCallback(src, org, cats, inps) ==
    Relabel(src, org, Labels(TrimmedBins(src), cats, ParsedBounds(inps)))

RECURSIVE BinWrites(_, _)
\* the assignments of the loop from bin i on: the category of the bin, then
\* the category of each position of its list
BinWrites(src, i) ==
    IF i > Len(src.hist) THEN <<>>
    ELSE <<Write("source")>> \o [k \in 1..Len(IndicesAt(src, i)) |-> Write("orig")]
             \o BinWrites(src, i + 1)

\* the steps of the threshold script: the loop, then the two emits
ThresholdLog(src) == BinWrites(src, 1) \o <<Emit("orig"), Emit("source")>>

(***************************************************************************)
(* interactive_hist with one key and one group of rows: a slider and a     *)
(* histogram of the key.                                                   *)
(***************************************************************************)
DefaultMaxBins == 100

HistStart(values, b) ==
    /\ adata = [obs |-> values]
    /\ args = [view |-> "interactive_hist", bins |-> b, max_bins |-> DefaultMaxBins]
    /\ orig = [values |-> values]
    /\ source = NpHistogram(values, b)
    /\ slider = [start |-> 1, end |-> Max2(DefaultMaxBins, b), value |-> b]
    /\ inputs = <<>>
    /\ mapper = None
    /\ col_ds = None
    /\ result = None
    /\ event = NoEvent

HistInit == \E tenths \in SampleTenths, b \in 1..MaxBins : HistStart(ToDoubles(tenths), b)

\* the script ran: orig holds the sorted array, source the new columns
HistRebinned(out) ==
    /\ orig' = SortedInPlace(orig, out)
    /\ source' = Assigned(source, out)

\* slider.js_on_change('value', *callbacks)
HistSliderChange(n) ==
    /\ args.view = "interactive_hist"
    /\ event.count < MaxEvents
    /\ n \in slider.start..Min2(slider.end, MaxBins)
    /\ n # slider.value
    /\ HistRebinned(InterHist(orig.values, n))
    /\ slider' = [slider EXCEPT !.value = n]
    /\ event' = Ran("slider", RebinLog)
    /\ UNCHANGED <<adata, args, inputs, mapper, col_ds, result>>

HistNext == \E n \in 1..MaxBins : HistSliderChange(n)

SpecHist == HistInit /\ [][HistNext]_vars

(***************************************************************************)
(* thresholding_hist: a histogram of the key, a slider, and a pair of text *)
(* inputs per category of the script.                                      *)
(***************************************************************************)
ThreshSliderEnd == 100

\* the declared categories, in the order of the mapping: category c is
\* [0.3 * (c - 1), 0.3 * (c + 1)], so that neighbours overlap
CategoryNames == <<"a", "b", "c">>

Declared ==
    Array([c \in 1..MaxCats |->
              [name |-> CategoryNames[c], start |-> 3 * (c - 1), end |-> 3 * (c + 1)]])

\* sample arrays of the thresholding view, in tenths: MaxLen rows of 0 and of
\* the largest grid value, not all equal
ThreshTenths ==
    {t \in [1..MaxLen -> {0, 3 * MaxStep}] : t[1] # t[MaxLen]}

\* the texts typed into an input: one that holds no number, and a number
InputTexts == {"", "0.9"}

ThreshSource(h) ==
    [hist     |-> h.hist,
     l_edges  |-> h.l_edges,
     r_edges  |-> h.r_edges,
     category |-> Array([i \in DOMAIN h.hist |-> "default"]),
     indices  |-> Array([i \in DOMAIN h.hist |-> <<>>])]

ThreshInputs(cats) ==
    Array([c \in DOMAIN cats |->
              [min |-> FormatNumber(cats[c].start), max |-> FormatNumber(cats[c].end)]])

ThreshStart(values, b, a) ==
    /\ adata = [obs |-> values]
    /\ args = a
    /\ orig = [values |-> values, category |-> Array([i \in DOMAIN values |-> "default"])]
    /\ source = ThreshSource(NpHistogram(values, b))
    /\ slider = [start |-> 1, end |-> ThreshSliderEnd, value |-> b]
    /\ inputs = ThreshInputs(ScriptCategories(a))
    /\ mapper = None
    /\ col_ds = None
    /\ result = None
    /\ event = NoEvent

Init ==
    \E tenths \in ThreshTenths, b \in 1..MaxBins, ncol \in 1..MaxCats :
        ThreshStart(ToDoubles(tenths), b,
                    [view |-> "thresholding_hist", bins |-> b,
                     categories |-> Declared, palette |-> ncol])

\* the threshold script ran
Categorized(res) ==
    /\ source' = res.source
    /\ orig' = res.orig

\* input.js_on_change('value', callback), for the min or the max input of a
\* category of the script
InputChange(c, field, text) ==
    /\ args.view = "thresholding_hist"
    /\ event.count < MaxEvents
    /\ c \in DOMAIN inputs
    /\ text # inputs[c][field]
    /\ inputs' = [inputs EXCEPT ![c][field] = text]
    /\ Categorized(ThresholdCallback(source, orig, ScriptCategories(args), inputs'))
    /\ event' = Ran("input", ThresholdLog(source))
    /\ UNCHANGED <<adata, args, slider, mapper, col_ds, result>>

\* the two scripts of the slider in the other order: the threshold script on
\* the bins as they were, then the rebinning script
ThresholdThenRebin(out) ==
    /\ source' = Assigned(ThresholdCallback(source, orig, ScriptCategories(args), inputs).source,
                          out)
    /\ orig' = SortedInPlace(ThresholdCallback(source, orig, ScriptCategories(args), inputs).orig,
                             out)

\* slider.js_on_change('value', interactive_hist_cb, callback): the rebinning
\* script, then the threshold script on what it left
Rebinned(out) ==
    Categorized(ThresholdCallback(Assigned(source, out), SortedInPlace(orig, out),
                                  ScriptCategories(args), inputs))

SliderChange(n) ==
    /\ args.view = "thresholding_hist"
    /\ event.count < MaxEvents
    /\ n \in slider.start..Min2(slider.end, MaxBins)
    /\ n # slider.value
    /\ Rebinned(InterHist(orig.values, n))
    /\ slider' = [slider EXCEPT !.value = n]
    /\ event' = Ran("slider", RebinLog \o ThresholdLog(source'))
    /\ UNCHANGED <<adata, args, inputs, mapper, col_ds, result>>

Next ==
    \/ \E n \in 1..MaxBins : SliderChange(n)
    \/ \E c \in 1..MaxCats, field \in {"min", "max"}, text \in InputTexts :
          InputChange(c, field, text)

Spec == Init /\ [][Next]_vars

(***************************************************************************)
(* Claims about the rebinning script, checked under SpecHist.             *)
(***************************************************************************)
AfterRebin == args.view = "interactive_hist" /\ event.kind = "slider"

BinCounts == Array([j \in DOMAIN source.indices |-> Len(source.indices[j])])
Widths == Array([j \in DOMAIN source.hist |-> FSub(source.r_edges[j], source.l_edges[j])])

\* C1: after the rebinning script ran, the lengths of the per-bin index lists
\* sum to the number of samples, and every sample position is in exactly one
\* of the lists.
C1_EverySampleInOneBin ==
    AfterRebin =>
        /\ SumSeq(BinCounts) = Len(orig.values)
        /\ \A i \in DOMAIN orig.values :
              Cardinality({j \in DOMAIN source.indices : i \in Range(source.indices[j])}) = 1

\* the floating tolerance of the claims: 2^-40
Tolerance == Fin(1, BShl(<<1>>, FracBits - 40))
FAbs(x) == IF IsNaN(x) THEN x ELSE [x EXCEPT !.s = 1]
Near(x, y) == FLe(FAbs(FSub(x, y)), Tolerance)

RECURSIVE FSum(_)
FSum(q) == IF q = <<>> THEN Zero ELSE FAdd(q[1], FSum(Tail(q)))

\* the density of every bin is count / (bin width * total count), and the
\* densities times the bin widths sum to 1, both up to the tolerance
DensityIntegratesToOne ==
    /\ \A j \in DOMAIN source.hist :
          Near(source.hist[j],
               FDiv(FromInt(BinCounts[j]), FMul(Widths[j], FromInt(SumSeq(BinCounts)))))
    /\ Near(FSum(Array([j \in DOMAIN source.hist |-> FMul(source.hist[j], Widths[j])])),
            FromInt(1))

DistinctSamples == \E i, k \in DOMAIN orig.values : orig.values[i] # orig.values[k]

C2_ZeroWidthWitness ==
    /\ AfterRebin
    /\ ~DistinctSamples
    /\ \E j \in DOMAIN source.hist : ~IsFin(source.hist[j])

\* the edges the claim names, for the sorted array x and n bins
EdgeAt(x, n, i) == FAdd(FMin(x), FMul(FDiv(FSub(FMax(x), FMin(x)), FromInt(n)), FromInt(i)))

\* C3: after the rebinning script ran, with bin_size = (max - min) / n_bins the
\* left edge of bin i is min + i * bin_size and its right edge is
\* min + (i + 1) * bin_size, and a sample position is in the index list of
\* bin j exactly when j is the lowest-indexed bin whose right edge is >= the
\* sample; for the samples [1, 2, 2, 3, 4, 10] and 3 bins the left edges are
\* [1, 4, 7], the right edges [4, 7, 10], the first bin holds the first five
\* positions, the second none and the third the last.
C3_LowestBinWithRightEdgeAbove ==
    AfterRebin =>
        /\ \A j \in DOMAIN source.hist :
              /\ source.l_edges[j] = EdgeAt(orig.values, Len(source.hist), j - 1)
              /\ source.r_edges[j] = EdgeAt(orig.values, Len(source.hist), j)
        /\ \A i \in DOMAIN orig.values : \A j \in DOMAIN source.indices :
              (i \in Range(source.indices[j]))
                  <=> /\ FLe(orig.values[i], source.r_edges[j])
                      /\ \A h \in 1..(j - 1) : ~FLe(orig.values[i], source.r_edges[h])
        /\ (adata.obs = ToDoubles(ExampleTenths) /\ slider.value = 3) =>
              /\ source.l_edges = <<FromInt(1), FromInt(4), FromInt(7)>>
              /\ source.r_edges = <<FromInt(4), FromInt(7), FromInt(10)>>
              /\ source.indices = <<<<1, 2, 3, 4, 5>>, <<>>, <<6>>>>

\* C3: the script ran on the example with 3 bins, and the sample 4 that equals
\* the first right edge is in the first bin
C3_Witness ==
    /\ AfterRebin
    /\ adata.obs = ToDoubles(ExampleTenths)
    /\ slider.value = 3
    /\ orig.values[5] = source.r_edges[1]
    /\ 5 \in Range(source.indices[1])

(***************************************************************************)
(* Claims about the threshold-categorization script, checked under Spec.  *)
(***************************************************************************)
AfterScript == args.view = "thresholding_hist" /\ event.kind # "none"

DeclaredNames == {args.categories[c].name : c \in DOMAIN args.categories}

\* C4: after every run of the threshold script, whatever the texts of the
\* boundary inputs, every bin of the histogram has a category, which is the
\* name of a declared category or 'default'.
C4_EveryBinHasOneCategory ==
    AfterScript =>
        \A i \in 1..Len(source.hist) :
            /\ i \in DOMAIN source.category
            /\ source.category[i] \in DeclaredNames \cup {"default"}

\* C4: the script ran with an input that holds no number, after the slider
\* raised the bin count, and left a bin in a declared category and another in
\* 'default'
C4_Witness ==
    /\ AfterScript
    /\ slider.value > args.bins
    /\ \E c \in DOMAIN inputs : inputs[c].min = "" \/ inputs[c].max = ""
    /\ \E i, k \in 1..Len(source.hist) :
          source.category[i] = "default" /\ source.category[k] \in DeclaredNames

\* the boundary of declared category c: the numbers of its inputs, and the
\* declared numbers where the view has no inputs for it
BoundaryOf(c) ==
    IF c \in DOMAIN inputs
    THEN [min |-> ParseFloat(inputs[c].min), max |-> ParseFloat(inputs[c].max)]
    ELSE [min |-> Tenths(args.categories[c].start), max |-> Tenths(args.categories[c].end)]

\* [min, max] of category c contains [left + mid, right - mid] of bin i
Contains(c, i) ==
    LET half == FDiv(FSub(source.r_edges[i], source.l_edges[i]), FromInt(2))
    IN  /\ FGe(FAdd(source.l_edges[i], half), BoundaryOf(c).min)
        /\ FLe(FSub(source.r_edges[i], half), BoundaryOf(c).max)

FirstContaining(i) ==
    IF \E c \in DOMAIN args.categories : Contains(c, i)
    THEN args.categories[CHOOSE c \in DOMAIN args.categories :
            Contains(c, i) /\ \A d \in 1..(c - 1) : ~Contains(d, i)].name
    ELSE "default"

\* the category the script gives bin i when it is built with the declared
\* categories c and d in each other's place (each with its own boundary)
Swapped(q, c, d) == [q EXCEPT ![c] = q[d], ![d] = q[c]]

SwappedCategory(i, c, d) ==
    LET cats == ScriptCategories([args EXCEPT !.categories = Swapped(@, c, d)])
    IN  BinCategory(TrimmedBins(source)[i], cats,
                    Array([e \in DOMAIN cats |->
                              BoundaryOf(IF e = c THEN d ELSE IF e = d THEN c ELSE e)]))

\* C5: after every run of the threshold script a bin has the category of the
\* first declared category, in declaration order, whose boundary contains the
\* bin's interval trimmed by half its width, and 'default' if none does; and
\* when that category c and a later declared category d both contain the
\* trimmed interval, the script built with c and d declared in each other's
\* place gives the bin the category d.
C5_FirstDeclaredMatchWins ==
    AfterScript =>
        \A i \in 1..Len(source.hist) :
            /\ source.category[i] = FirstContaining(i)
            /\ \A c, d \in DOMAIN args.categories :
                  (/\ c < d
                   /\ args.categories[c].name = FirstContaining(i)
                   /\ Contains(c, i)
                   /\ Contains(d, i))
                      => SwappedCategory(i, c, d) = args.categories[d].name

(***************************************************************************)
(* link_plot with one gene and a p-norm distance: the snapshot `ds` holds  *)
(* a distance column per row, named by the row's number, the highlight    *)
(* column hl_color and the group column hl_key; col_ds holds the root.    *)
(***************************************************************************)
MaxRows == 3        \* rows of a generated dataset of link_plot
MaxCoord == 2       \* largest expression value of such a row

\* str(k) of a row number
NumberTexts == <<"0", "1", "2", "3", "4", "5", "6", "7", "8", "9">>
Str(k) == NumberTexts[k + 1]

\* the property key JavaScript makes of a value used as a subscript: the text
\* of a number, and for an array of one string that string
PropertyKey(v) == IF v.kind = "array" THEN v.items[1] ELSE Str(v.n)

\* the array index a property key stands for
KeyIndex(key) == CHOOSE k \in 0..(Len(NumberTexts) - 1) : Str(k) = key

Abs(i) == IF i < 0 THEN 0 - i ELSE i

\* distance_matrix(d, d, p) of one column d of whole numbers
DistanceMatrix(d) ==
    Array([i \in DOMAIN d |-> Array([j \in DOMAIN d |-> FromInt(Abs(d[i] - d[j]))])])

\* pd.DataFrame(dmat, columns=list(map(str, range(n_obs)))): column str(j)
\* holds dmat[i][j] in row i
DistanceColumns(dmat) ==
    [key \in {Str(j) : j \in 0..(Len(dmat) - 1)} |->
        Array([i \in DOMAIN dmat |-> dmat[i][KeyIndex(key) + 1]])]

HlKey(a, highlight_only) ==
    IF highlight_only = None THEN [i \in DOMAIN a.X |-> 0] ELSE a.obs[highlight_only]

LinkSource(a, highlight_only) ==
    [columns |-> DistanceColumns(DistanceMatrix(a.X)),
     hl_color |-> [i \in DOMAIN a.X |-> NaN],
     hl_key |-> HlKey(a, highlight_only)]

\* dmat[~np.isinf(dmat)].max().max()
DistanceEnd(src) == FMax(Array([j \in 1..Len(src.hl_key) |-> FMax(src.columns[Str(j - 1)])]))

LinkSlider(end) ==
    [start |-> Zero, end |-> end, value |-> FDiv(end, FromInt(2)),
     step |-> FDiv(end, FromInt(1000))]

start_ix == "0"

LinkStart(a, cutoff, highlight_only) ==
    /\ adata = a
    /\ args = [view |-> "link_plot", cutoff |-> cutoff, highlight_only |-> highlight_only]
    /\ orig = None
    /\ source = LinkSource(a, highlight_only)
    /\ slider = LinkSlider(DistanceEnd(LinkSource(a, highlight_only)))
    /\ inputs = None
    /\ mapper = [low |-> FMin(LinkSource(a, highlight_only).columns[start_ix]),
                 high |-> FMax(LinkSource(a, highlight_only).columns[start_ix])]
    /\ col_ds = [value |-> [kind |-> "array", items |-> <<start_ix>>]]
    /\ result = None
    /\ event = [kind |-> "none", hovered |-> 0, log |-> <<>>]

Groups == {"g0", "g1"}

\* the expression column of n rows, not all of one value
LinkColumns(n) == {c \in [1..n -> 0..MaxCoord] : \E i \in 1..n : c[i] # c[1]}

\* the group column of n rows: two groups when the plot highlights by group
LinkGroups(n, highlight_only) ==
    IF highlight_only = None
    THEN {[i \in 1..n |-> "g0"]}
    ELSE {c \in [1..n -> Groups] : c[1] = "g0" /\ c[n] = "g1"}

LinkInit ==
    \E n \in 2..MaxRows, cutoff \in BOOLEAN, highlight_only \in {None, "group"} :
        \E x \in LinkColumns(n), g \in LinkGroups(n, highlight_only) :
            LinkStart([X |-> x, obs |-> [group |-> g]], cutoff, highlight_only)

\* update_color_code with `x >= slider.value` for the cutoff test
HighlightedBelow(src, x, i, first, cut, cutoff) ==
    IF \/ IsNaN(x)
       \/ (cutoff /\ ~IsNaN(cut) /\ FCmp(x, cut) >= 0)
       \/ src.hl_key[KeyIndex(PropertyKey(first)) + 1] # src.hl_key[i]
    THEN NaN
    ELSE x

\* update_color_code: hl_color of row i from the column of `first`
Highlighted(src, x, i, first, cut, cutoff) ==
    IF \/ IsNaN(x)
       \/ (cutoff /\ ~IsNaN(cut) /\ FCmp(x, cut) > 0)
       \/ src.hl_key[KeyIndex(PropertyKey(first)) + 1] # src.hl_key[i]
    THEN NaN
    ELSE x

\* update_color_code writing the highlights into the array it reads, the
\* distance column of `first`, which hl_color then shares
UpdatedInPlace(src, first, cut, cutoff) ==
    [src EXCEPT !.hl_color =
                    Array([i \in DOMAIN src.columns[PropertyKey(first)] |->
                              Highlighted(src, src.columns[PropertyKey(first)][i], i, first,
                                          cut, cutoff)]),
                !.columns[PropertyKey(first)] =
                    Array([i \in DOMAIN src.columns[PropertyKey(first)] |->
                              Highlighted(src, src.columns[PropertyKey(first)][i], i, first,
                                          cut, cutoff)])]

UpdateColorCode(src, first, cut, cutoff) ==
    [src EXCEPT !.hl_color =
        Array([i \in DOMAIN src.columns[PropertyKey(first)] |->
                  Highlighted(src, src.columns[PropertyKey(first)][i], i, first, cut, cutoff)])]

\* col.data['value'] = first, ignored by the script that forgets the hover
HoverKept(col, first) == col

HoverStored(col, first) == [col EXCEPT !.value = first]

\* the positions the user can drag the slider to, of which the model takes
\* both ends and the middle
SliderStops(s) == {s.start, FDiv(s.end, FromInt(2)), s.end}

\* the steps of slider.callback, of h_tool.callback over no row, and of
\* h_tool.callback over a row
LinkSliderLog == <<Write("source"), Emit("source")>>
HoverNoneLog == <<Write("source"), Emit("source")>>
HoverLog == <<Write("source"), Write("source"), Write("col"), Emit("col"), Emit("source")>>

\* slider.callback
LinkSliderChange(v) ==
    /\ args.view = "link_plot"
    /\ v \in SliderStops(slider)
    /\ v # slider.value
    /\ slider' = [slider EXCEPT !.value = v]
    /\ mapper' = [mapper EXCEPT !.high = v]
    /\ source' = UpdateColorCode(source, col_ds.value, v, args.cutoff)
    /\ event' = [event EXCEPT !.kind = "slider", !.log = LinkSliderLog]
    /\ UNCHANGED <<adata, args, orig, inputs, col_ds, result>>

\* h_tool.callback when the pointer is over no row
LinkHoverNone ==
    /\ args.view = "link_plot"
    /\ event' = [event EXCEPT !.kind = "miss", !.log = HoverNoneLog]
    /\ UNCHANGED <<adata, args, orig, source, slider, inputs, mapper, col_ds, result>>

\* h_tool.callback with cb_data.index['1d'].indices = indices, not empty
LinkHover(indices) ==
    /\ args.view = "link_plot"
    /\ source' = UpdateColorCode(source, [kind |-> "number", n |-> indices[1]],
                                 slider.value, args.cutoff)
    /\ col_ds' = HoverStored(col_ds, [kind |-> "number", n |-> indices[1]])
    /\ event' = [kind |-> "hover", hovered |-> indices[1], log |-> HoverLog]
    /\ UNCHANGED <<adata, args, orig, slider, inputs, mapper, result>>

\* the rows under the pointer: one row, or a row and its successor
HoverIndices(n) == {<<i>> : i \in 0..(n - 1)} \cup {<<i, (i + 1) % n>> : i \in 0..(n - 1)}

LinkNext ==
    \/ \E v \in SliderStops(slider) : LinkSliderChange(v)
    \/ LinkHoverNone
    \/ \E indices \in HoverIndices(Len(adata.X)) : LinkHover(indices)

SpecLink == LinkInit /\ [][LinkNext]_vars

(***************************************************************************)
(* Claims about the distance-highlight scripts, checked under SpecLink.   *)
(***************************************************************************)
\* the row the scripts take as the root: the row col_ds stands for
RootRow == KeyIndex(PropertyKey(col_ds.value))

\* the highlight of row i for root r, from the dataset
ExpectedHighlight(r, i) ==
    LET d == FromInt(Abs(adata.X[i] - adata.X[r + 1]))
    IN  IF \/ (args.cutoff /\ FCmp(d, slider.value) > 0)
           \/ (args.highlight_only # None /\ adata.obs.group[i] # adata.obs.group[r + 1])
        THEN NaN
        ELSE d

\* C6: the root row is the row hovered last, and row 0 before any hover; so
\* after every slider change, whatever hovers and misses came before, the
\* highlight column is the one of the row hovered last, and a hover over
\* another row makes that row the root.
C6_RootIsLastHoveredRow ==
    args.view = "link_plot" =>
        /\ RootRow = event.hovered
        /\ event.kind \in {"slider", "hover"} =>
              \A i \in DOMAIN source.hl_color :
                  source.hl_color[i] = ExpectedHighlight(event.hovered, i)

\* C6: a slider change after a hover over a row other than row 0 that shows
\* the distances from that row
C6_Witness ==
    /\ args.view = "link_plot"
    /\ event.kind = "slider"
    /\ event.hovered # 0
    /\ \E i \in DOMAIN source.hl_color :
          ~IsNaN(source.hl_color[i]) /\ source.hl_color[i] # source.columns[start_ix][i]

(***************************************************************************)
(* _create_mapper(adata, key).  The dataset has a categorical observation *)
(* column `cluster` (its declared categories, in order, and the category  *)
(* of each row), a numeric observation column `score`, the variables      *)
(* `gene` and `cluster` with a column of X each, and, or not, the colours *)
(* adata.uns['cluster_colors'].  A colour of the viridis map is the pair  *)
(* of the map's size and the position taken from it.                      *)
(***************************************************************************)
MaxObs == 2         \* rows of a generated dataset of _create_mapper
MaxScore == 1       \* largest number of a numeric column of such a dataset

RECURSIVE Unique(_)
\* pandas unique(): the distinct values, in order of first appearance
Unique(q) ==
    IF q = <<>> THEN <<>>
    ELSE <<q[1]>> \o Unique(SelectSeq(Tail(q), LAMBDA v : v # q[1]))

MinOf(q) == CHOOSE v \in Range(q) : \A w \in Range(q) : v <= w
MaxOf(q) == CHOOSE v \in Range(q) : \A w \in Range(q) : v >= w

obs_keys(a) == DOMAIN a.obs

IsCategorical(col) == col.dtype = "category"

\* dict(zip(vals, range(len(vals))))[v]: the last position that holds v
LastPosition(vals, v) == MaxOf(Array([i \in DOMAIN vals |-> IF vals[i] = v THEN i - 1 ELSE 0]))

\* cm.get_cmap('viridis', size)([mapper[v] for v in vals])
Viridis(size, vals) ==
    Array([i \in DOMAIN vals |-> [map |-> "viridis", size |-> size, at |-> LastPosition(vals, vals[i])]])

LinearColorMapper(palette, low, high) ==
    [kind |-> "LinearColorMapper", palette |-> palette, low |-> low, high |-> high,
     factors |-> <<>>]

CategoricalColorMapper(palette, factors) ==
    [kind |-> "CategoricalColorMapper", palette |-> palette, low |-> 0, high |-> 0,
     factors |-> factors]

\* the mapper with the distinct observed values for factors, which the code
\* does not build
FactorsObserved(col) == Array([i \in DOMAIN Unique(col.values) |-> Str(Unique(col.values)[i])])

\* list(map(str, adata.obs[key].cat.categories))
Factors(col) == Array([i \in DOMAIN col.categories |-> Str(col.categories[i])])

\* np.where(adata.var_names == key)[0][0], as a position from 1
VarIndex(a, key) == CHOOSE ix \in DOMAIN a.var_names :
    a.var_names[ix] = key /\ \A k \in 1..(ix - 1) : a.var_names[k] # key

\* no mapper: the call has not returned one
NoMapper == [kind |-> "None", palette |-> <<>>, low |-> 0, high |-> 0, factors |-> <<>>]

\* the outcomes of a call: pending, returned, raised
Pending == [status |-> "pending", error |-> "", mapper |-> NoMapper]
Returned(m) == [status |-> "returned", error |-> "", mapper |-> m]
Raised(error) == [status |-> "raised", error |-> error, mapper |-> NoMapper]

\* a linear mapper labelled as a categorical one, which the code does not build
AsCategoricalMapper(vals, n_obs) ==
    [LinearColorMapper(Viridis(n_obs, vals), MinOf(vals), MaxOf(vals))
        EXCEPT !.kind = "CategoricalColorMapper"]

\* the branch of a key that is no observation column, for a variable name
VarMapper(vals, n_obs) ==
    LinearColorMapper(Viridis(n_obs, vals), MinOf(vals), MaxOf(vals))

\* the branch of a key that is no observation column: the assert, which a
\* run with -O skips, so that the subscript [0][0] fails
NotObsMapper(a, key, optimized) ==
    IF key \notin Range(a.var_names)
    THEN Raised(IF optimized THEN "IndexError" ELSE "AssertionError")
    ELSE Returned(VarMapper(a.X[VarIndex(a, key)], a.n_obs))

\* vals of the default palette
PaletteValues(col) == IF IsCategorical(col) THEN Unique(col.values) ELSE col.values

DefaultPalette(col, n_obs) ==
    Viridis(IF IsCategorical(col) THEN Len(Unique(col.values)) ELSE n_obs, PaletteValues(col))

\* adata.uns.get(f'{key}_colors', default_palette)
PaletteOf(a, key) ==
    IF key \in DOMAIN a.uns THEN a.uns[key] ELSE DefaultPalette(a.obs[key], a.n_obs)

ObsMapper(col, palette) ==
    IF IsCategorical(col)
    THEN CategoricalColorMapper(palette, Factors(col))
    ELSE LinearColorMapper(palette, MinOf(col.values), MaxOf(col.values))

create_mapper(a, key, optimized) ==
    IF key \notin obs_keys(a)
    THEN NotObsMapper(a, key, optimized)
    ELSE Returned(ObsMapper(a.obs[key], PaletteOf(a, key)))

\* the declared categories of `cluster`: numbers, in an order, of which the
\* longest list holds a category more than the rows can carry
CategoryLists == {<<0, 1>>, <<1, 0>>, <<0, 1, 2>>}

StoredColours == <<"#1f77b4", "#ff7f0e", "#2ca02c">>

UnsOf(stored) == IF stored THEN [cluster |-> StoredColours] ELSE <<>>

MapperData(n, cats, vals, score, x, stored) ==
    [n_obs |-> n,
     obs |-> [cluster |-> [dtype |-> "category", categories |-> cats, values |-> vals],
              score |-> [dtype |-> "int64", categories |-> <<>>, values |-> score]],
     var_names |-> <<"gene", "cluster">>,
     X |-> <<x, [i \in 1..n |-> 0]>>,
     uns |-> UnsOf(stored)]

MapperKeys == {"cluster", "score", "gene", "absent"}

MapperStart(a, key, optimized) ==
    /\ adata = a
    /\ args = [view |-> "_create_mapper", key |-> key, optimized |-> optimized]
    /\ orig = None
    /\ source = None
    /\ slider = None
    /\ inputs = None
    /\ mapper = NoMapper
    /\ col_ds = None
    /\ result = Pending
    /\ event = NoEvent

MapperInit ==
    \E n \in 1..MaxObs, cats \in CategoryLists, stored \in BOOLEAN :
        \E vals \in [1..n -> Range(cats)], score \in [1..n -> 0..MaxScore],
           x \in [1..n -> 0..MaxScore] :
            \E key \in MapperKeys, optimized \in BOOLEAN :
                MapperStart(MapperData(n, cats, vals, score, x, stored), key, optimized)

\* the call ended: what it returned or raised
MapperCalled(res) ==
    /\ result' = res
    /\ mapper' = res.mapper

CreateMapper ==
    /\ args.view = "_create_mapper"
    /\ result = Pending
    /\ MapperCalled(create_mapper(adata, args.key, args.optimized))
    /\ event' = Handled("call")
    /\ UNCHANGED <<adata, args, orig, source, slider, inputs, col_ds>>

MapperNext == CreateMapper

SpecMapper == MapperInit /\ [][MapperNext]_vars

(***************************************************************************)
(* Claims about _create_mapper, checked under SpecMapper.                 *)
(***************************************************************************)
AfterMapper == args.view = "_create_mapper" /\ result # Pending

CategoricalKey ==
    /\ args.key \in DOMAIN adata.obs
    /\ adata.obs[args.key].dtype = "category"

ObservedTexts == {Str(v) : v \in Range(adata.obs[args.key].values)}

DeclaredTexts == [i \in DOMAIN adata.obs[args.key].categories |->
                     Str(adata.obs[args.key].categories[i])]

\* C7, as stated: for a categorical observation column the factors of the
\* mapper returned are exactly the distinct values the rows of the column
\* hold, as strings.
C7_FactorsAreObservedValues ==
    (AfterMapper /\ CategoricalKey) =>
        /\ result.status = "returned"
        /\ mapper.kind = "CategoricalColorMapper"
        /\ Range(mapper.factors) = ObservedTexts

\* C7, amended: for a categorical observation column the factors of the
\* mapper returned are the declared categories of the column, as strings and
\* in declared order; every value a row holds is among them, and a declared
\* category that no row holds is a factor too.
C7_FactorsAreDeclaredCategories ==
    (AfterMapper /\ CategoricalKey) =>
        /\ result.status = "returned"
        /\ mapper.kind = "CategoricalColorMapper"
        /\ mapper.factors = DeclaredTexts
        /\ ObservedTexts \subseteq Range(mapper.factors)

\* C7: a mapper of a column that declares a category no row holds
C7_Witness ==
    /\ AfterMapper
    /\ CategoricalKey
    /\ mapper.kind = "CategoricalColorMapper"
    /\ ObservedTexts # Range(mapper.factors)
    /\ Len(adata.obs[args.key].values) = MaxObs

C8_MissingKeyWitness ==
    /\ AfterMapper
    /\ args.key \notin DOMAIN adata.obs
    /\ args.key \notin Range(adata.var_names)
    /\ result.status = "raised"

(***************************************************************************)
(* _smooth_expression(x, y, mode, kernel_params, kernel_default_params,   *)
(* kernel_expr, default).  A dict is a function of its keys; kernel_expr  *)
(* is the tree ast.parse gives: a Name, a Num, a BinOp of two trees or a  *)
(* UnaryOp of one.  The dicts of the caller are part of args, and hold    *)
(* after the call what the call left in them.                             *)
(***************************************************************************)
MaxOps == 2         \* operators of a generated kernel expression

Name(id) == [node |-> "Name", id |-> id]
Num(n) == [node |-> "Num", n |-> n]
BinOp(op, left, right) == [node |-> "BinOp", op |-> op, left |-> left, right |-> right]
UnaryOp(op, operand) == [node |-> "UnaryOp", op |-> op, operand |-> operand]

\* the keys of `operators`
operators == {"Add", "Mult", "Pow"}

\* the keys of `kernels`, each with the class it names and the keyword
\* parameters the constructor of the class takes
kernels ==
    [const |-> [class |-> "ConstantKernel",
                takes |-> {"constant_value", "constant_value_bounds"}],
     white |-> [class |-> "WhiteKernel",
                takes |-> {"noise_level", "noise_level_bounds"}],
     rbf   |-> [class |-> "RBF",
                takes |-> {"length_scale", "length_scale_bounds"}],
     mat   |-> [class |-> "Matern",
                takes |-> {"length_scale", "length_scale_bounds", "nu"}],
     rq    |-> [class |-> "RationalQuadratic",
                takes |-> {"length_scale", "alpha", "length_scale_bounds", "alpha_bounds"}],
     esn   |-> [class |-> "ExpSineSquared",
                takes |-> {"length_scale", "periodicity", "length_scale_bounds",
                           "periodicity_bounds"}],
     dp    |-> [class |-> "DotProduct",
                takes |-> {"sigma_0", "sigma_0_bounds"}],
     pw    |-> [class |-> "PairwiseKernel",
                takes |-> {"gamma", "gamma_bounds", "metric", "pairwise_kernels_kwargs"}]]

\* values of _eval: a number, a kernel of a class, a kernel of two operands
Number(n) == [is |-> "number", n |-> n]
Kernel(class, params) == [is |-> "kernel", class |-> class, params |-> params]
Compound(class, k1, k2) == [is |-> "kernel", class |-> class, k1 |-> k1, k2 |-> k2]
NoValue == [is |-> "none"]

IsKernel(v) == v.is = "kernel"

\* outcomes of _eval: the value or the error, and the dicts as they are then
Evaluated(value, kp, dp) ==
    [status |-> "ok", error |-> "", value |-> value,
     kernel_params |-> kp, kernel_default_params |-> dp]
Failed(error, kp, dp) ==
    [status |-> "raised", error |-> error, value |-> NoValue,
     kernel_params |-> kp, kernel_default_params |-> dp]

\* the dict without a key
Without(d, key) == [k \in DOMAIN d \ {key} |-> d[k]]

\* params.pop('type', 'rbf'), which takes the key out of the dict
Popped(params) == IF "type" \in DOMAIN params THEN params["type"] ELSE "rbf"

AfterPop(params) == Without(params, "type")

\* kernels[kernel_type](**params)
Construct(kernel_type, params, kp, dp) ==
    IF kernel_type \notin DOMAIN kernels THEN Failed("KeyError", kp, dp)
    ELSE IF ~(DOMAIN params \subseteq kernels[kernel_type].takes)
         THEN Failed("TypeError", kp, dp)
    ELSE Evaluated(Kernel(kernels[kernel_type].class, params), kp, dp)

\* the ast.Name branch, for a name that is a key of kernel_params
DeclaredLeaf(id, kp, dp) ==
    Construct(Popped(kp[id]), Without(kp[id], "type"),
              [kp EXCEPT ![id] = AfterPop(kp[id])], dp)

\* the ast.Name branch, for a name that is none: the default dict is popped
DefaultLeaf(kp, dp) ==
    Construct(Popped(dp), Without(dp, "type"), kp, AfterPop(dp))

EvalName(id, kp, dp, default) ==
    IF ~default /\ id \notin DOMAIN kp THEN Failed("ValueError", kp, dp)
    ELSE IF id \in DOMAIN kp THEN DeclaredLeaf(id, kp, dp)
    ELSE DefaultLeaf(kp, dp)

\* b as Kernel.__add__ and Kernel.__mul__ take it: ConstantKernel(b) for a
\* number
AsKernel(v) == IF IsKernel(v) THEN v ELSE Kernel("ConstantKernel", [constant_value |-> v.n])

Power(n, e) == IF e = 0 THEN 1 ELSE IF e = 1 THEN n ELSE n * n

\* op.add, op.mul and op.pow of two numbers (the exponents of the model are
\* 2 at most)
Arithmetic(op, m, n) ==
    IF op = "Add" THEN m + n ELSE IF op = "Mult" THEN m * n ELSE Power(m, Min2(n, 2))

\* operators[type(node.op)](l, r): of numbers, the number; of a kernel and
\* anything, Sum, Product or Exponentiation; a number to the power of a
\* kernel is a TypeError
Combine(op, l, r, kp, dp) ==
    IF ~IsKernel(l) /\ ~IsKernel(r) THEN Evaluated(Number(Arithmetic(op, l.n, r.n)), kp, dp)
    ELSE IF op = "Add" THEN Evaluated(Compound("Sum", AsKernel(l), AsKernel(r)), kp, dp)
    ELSE IF op = "Mult" THEN Evaluated(Compound("Product", AsKernel(l), AsKernel(r)), kp, dp)
    ELSE IF IsKernel(l) THEN Evaluated(Compound("Exponentiation", l, r), kp, dp)
    ELSE Failed("TypeError", kp, dp)

Combined(op, l, r) ==
    IF r.status = "raised" THEN r
    ELSE Combine(op, l.value, r.value, r.kernel_params, r.kernel_default_params)

RECURSIVE Eval(_, _, _, _)
\* the right operand is evaluated after the left one, with the dicts as the
\* left one left them
EvalRight(node, l, default) ==
    IF l.status = "raised" THEN l
    ELSE Combined(node.op, l,
                  Eval(node.right, l.kernel_params, l.kernel_default_params, default))

\* _eval(node)
Eval(node, kp, dp, default) ==
    IF node.node = "Num" THEN Evaluated(Number(node.n), kp, dp)
    ELSE IF node.node = "Name" THEN EvalName(node.id, kp, dp, default)
    ELSE IF node.op \notin operators THEN Failed("KeyError", kp, dp)
    ELSE IF node.node = "BinOp" THEN EvalRight(node, Eval(node.left, kp, dp, default), default)
    ELSE Failed("TypeError", kp, dp)

RECURSIVE WellFormed(_)
\* a kernel the regressor can fit: a kernel of kernels, every exponent a
\* number
WellFormed(v) ==
    IF ~IsKernel(v) THEN FALSE
    ELSE IF v.class \in {"Sum", "Product"} THEN WellFormed(v.k1) /\ WellFormed(v.k2)
    ELSE IF v.class = "Exponentiation" THEN WellFormed(v.k1) /\ ~IsKernel(v.k2)
    ELSE TRUE

\* the outcomes of the call: what it returned or raised, the kernel it
\* built, and whether a model was fitted
SmoothPending == [status |-> "pending", error |-> "", kernel |-> NoValue, fitted |-> FALSE]

\* GaussianProcessRegressor(kernel=kernel, ..).fit(x, y) and predict
Fitted(value) ==
    IF WellFormed(value)
    THEN [status |-> "returned", error |-> "", kernel |-> value, fitted |-> TRUE]
    ELSE [status |-> "raised", error |-> "TypeError", kernel |-> value, fitted |-> FALSE]

GpOutcome(e) ==
    IF e.status = "raised"
    THEN [status |-> "raised", error |-> e.error, kernel |-> NoValue, fitted |-> FALSE]
    ELSE Fitted(e.value)

\* kernel_expr is None: the only key of kernel_params is the expression; of
\* no or several keys the assert fails, or the unpacking when asserts are off
OnlyKey(kp) == Name(CHOOSE id \in DOMAIN kp : TRUE)

GpEval(a) ==
    IF a.kernel_expr # NoValue
    THEN Eval(a.kernel_expr, a.kernel_params, a.kernel_default_params, a.default)
    ELSE IF Cardinality(DOMAIN a.kernel_params) # 1
         THEN Failed(IF a.optimized THEN "ValueError" ELSE "AssertionError",
                     a.kernel_params, a.kernel_default_params)
    ELSE Eval(OnlyKey(a.kernel_params), a.kernel_params, a.kernel_default_params, a.default)

\* mode 'krr' fits a KernelRidge and evaluates no expression; another mode
\* than 'gp' and 'krr' is a ValueError
OtherMode(a) ==
    IF a.mode = "krr"
    THEN [status |-> "returned", error |-> "", kernel |-> NoValue, fitted |-> TRUE]
    ELSE [status |-> "raised", error |-> "ValueError", kernel |-> NoValue, fitted |-> FALSE]

\* the caller's dicts after the call
DictsAfter(a, e) ==
    [a EXCEPT !.kernel_params = e.kernel_params,
              !.kernel_default_params = e.kernel_default_params]

ConstA == [type |-> "const", constant_value |-> 1]
DotB == [type |-> "dp", sigma_0 |-> 2]

\* kernel_params of the example: a constant kernel a and a linear kernel b
ParamSets == {<<>>, [a |-> ConstA], [a |-> ConstA, b |-> DotB]}

DefaultSets == {<<>>, [type |-> "const", constant_value |-> 1]}

Leaves == {Name("a"), Name("b"), Name("c"), Num(2)}

BinaryOps == {"Add", "Mult", "Pow", "Sub"}

RECURSIVE Expressions(_)
\* the trees of at most k operators, of which one operand is a leaf
Expressions(k) ==
    IF k = 0 THEN Leaves
    ELSE Expressions(k - 1)
         \cup {BinOp(op, l, r) : op \in BinaryOps, l \in Expressions(k - 1), r \in Leaves}
         \cup {BinOp(op, l, r) : op \in BinaryOps, l \in Leaves, r \in Expressions(k - 1)}
         \cup {UnaryOp("USub", e) : e \in Leaves}

SmoothStart(a) ==
    /\ adata = None
    /\ args = a
    /\ orig = None
    /\ source = None
    /\ slider = None
    /\ inputs = None
    /\ mapper = None
    /\ col_ds = None
    /\ result = SmoothPending
    /\ event = [kind |-> "none", before |-> a]

SmoothArgs(mode, expr, kp, dp, default, optimized) ==
    [view |-> "_smooth_expression", mode |-> mode, kernel_expr |-> expr,
     kernel_params |-> kp, kernel_default_params |-> dp, default |-> default,
     optimized |-> optimized]

SmoothInit ==
    \E kp \in ParamSets, dp \in DefaultSets, default \in BOOLEAN :
        \/ \E expr \in Expressions(MaxOps) :
              SmoothStart(SmoothArgs("gp", expr, kp, dp, default, FALSE))
        \/ \E optimized \in BOOLEAN, mode \in {"gp", "krr", "svm"} :
              SmoothStart(SmoothArgs(mode, NoValue, kp, dp, default, optimized))

\* the call in mode 'gp' ended: its outcome, and the dicts it leaves
GpCalled(e) ==
    /\ result' = GpOutcome(e)
    /\ args' = DictsAfter(args, e)

SmoothGp ==
    /\ args.view = "_smooth_expression"
    /\ result = SmoothPending
    /\ args.mode = "gp"
    /\ GpCalled(GpEval(args))
    /\ event' = [event EXCEPT !.kind = "call"]
    /\ UNCHANGED <<adata, orig, source, slider, inputs, mapper, col_ds>>

SmoothOther ==
    /\ args.view = "_smooth_expression"
    /\ result = SmoothPending
    /\ args.mode # "gp"
    /\ result' = OtherMode(args)
    /\ event' = [event EXCEPT !.kind = "call"]
    /\ UNCHANGED <<adata, args, orig, source, slider, inputs, mapper, col_ds>>

SmoothNext == SmoothGp \/ SmoothOther

SpecSmooth == SmoothInit /\ [][SmoothNext]_vars

(***************************************************************************)
(* Claims about _smooth_expression, checked under SpecSmooth.             *)
(***************************************************************************)
\* the call was made in mode 'gp' with an expression, of which the state
\* holds the outcome
AfterGp ==
    /\ args.view = "_smooth_expression"
    /\ event.kind = "call"
    /\ args.mode = "gp"
    /\ args.kernel_expr # NoValue

RECURSIVE OverOperators(_)
\* the expression is made of +, * and **, names and numbers
OverOperators(node) ==
    IF node.node \in {"Num", "Name"} THEN TRUE
    ELSE IF node.node = "BinOp"
         THEN node.op \in {"Add", "Mult", "Pow"}
              /\ OverOperators(node.left) /\ OverOperators(node.right)
    ELSE FALSE

RECURSIVE LeafNames(_)
LeafNames(node) ==
    IF node.node = "Name" THEN {node.id}
    ELSE IF node.node = "BinOp" THEN LeafNames(node.left) \cup LeafNames(node.right)
    ELSE {}

\* the parameters of a leaf name as the caller gave them: its entry in
\* kernel_params, and the default parameters for a name without an entry
GivenParams(id) ==
    IF id \in DOMAIN event.before.kernel_params
    THEN event.before.kernel_params[id]
    ELSE event.before.kernel_default_params

\* the kernel of the declared type of a leaf name, with its parameters
LeafKernel(id) ==
    Kernel(kernels[IF "type" \in DOMAIN GivenParams(id) THEN GivenParams(id)["type"] ELSE "rbf"].class,
           [k \in DOMAIN GivenParams(id) \ {"type"} |-> GivenParams(id)[k]])

\* the left value and the right value under the operator of the node; no
\* value when the operands have none or the operator takes no such operands
ExpectedCombined(op, l, r) ==
    IF l = NoValue \/ r = NoValue THEN NoValue ELSE Combine(op, l, r, <<>>, <<>>).value

RECURSIVE ExpectedTree(_)
\* the expression tree of the claim: every leaf name replaced by its kernel
ExpectedTree(node) ==
    IF node.node = "Num" THEN Number(node.n)
    ELSE IF node.node = "Name" THEN LeafKernel(node.id)
    ELSE ExpectedCombined(node.op, ExpectedTree(node.left), ExpectedTree(node.right))

\* the expression is one the operators can combine
Combinable(expr) == OverOperators(expr) /\ ExpectedTree(expr) # NoValue

\* C9: in mode 'gp', for an expression that names a leaf which is no key of
\* kernel_params: with default=False the call raises the ValueError of the
\* undeclared leaf, fits no model and returns nothing; with default=True the
\* call builds the kernel in which that leaf is the kernel of the default
\* parameters.
C9_UndeclaredLeafFailsOrDefaults ==
    (/\ AfterGp
     /\ Combinable(args.kernel_expr)
     /\ ~(LeafNames(args.kernel_expr) \subseteq DOMAIN event.before.kernel_params))
        => IF ~args.default
           THEN /\ result.status = "raised"
                /\ result.error = "ValueError"
                /\ ~result.fitted
                /\ result.kernel = NoValue
           ELSE result.kernel = ExpectedTree(args.kernel_expr)

\* C10: in mode 'gp', for an expression over +, * and ** of which every leaf
\* name is a key of kernel_params, the kernel built is the expression tree
\* with every leaf name replaced by the kernel of its entry in kernel_params.
C10_KernelIsExpressionTree ==
    (/\ AfterGp
     /\ Combinable(args.kernel_expr)
     /\ LeafNames(args.kernel_expr) \subseteq DOMAIN event.before.kernel_params)
        => result.kernel = ExpectedTree(args.kernel_expr)
(***************************************************************************)
(* Claims about the highlight values and the colour mapper of link_plot,  *)
(* checked under SpecLink.                                                 *)
(***************************************************************************)
\* the precomputed distance between row i and the root row r, as the snapshot
\* holds it
Precomputed(r, i) == source.columns[Str(r)][i]

\* rows i and r are of one group of the highlight_only key
SameGroup(r, i) == adata.obs.group[i] = adata.obs.group[r + 1]

\* C17: after a hover over row r, and after a slider change while r is the
\* root, the highlight of every row i is its precomputed distance to r when
\* that distance is a number, is not larger than the slider's value (tested
\* only when the cutoff is enabled) and i is of the group of r (tested only
\* with a highlight_only key); the highlight is NaN otherwise.
C17_HighlightIsDistanceOrNaN ==
    (args.view = "link_plot" /\ event.kind \in {"hover", "slider"}) =>
        \A i \in DOMAIN source.hl_color :
            LET d == Precomputed(RootRow, i)
                number == ~IsNaN(d)
                within == args.cutoff => FLe(d, slider.value)
                grouped == args.highlight_only # None => SameGroup(RootRow, i)
            IN  /\ (number /\ within /\ grouped) => source.hl_color[i] = d
                /\ ~(number /\ within /\ grouped) => IsNaN(source.hl_color[i])

\* C17: a state after a slider change, with a cutoff and a highlight_only
\* key, where one row is left out for its distance, another for its group,
\* and a row whose distance is the slider's value keeps it
C17_Witness ==
    /\ args.view = "link_plot"
    /\ event.kind = "slider"
    /\ args.cutoff
    /\ args.highlight_only # None
    /\ \E i \in DOMAIN source.hl_color :
          /\ SameGroup(RootRow, i)
          /\ FCmp(Precomputed(RootRow, i), slider.value) > 0
          /\ IsNaN(source.hl_color[i])
    /\ \E i \in DOMAIN source.hl_color :
          /\ ~SameGroup(RootRow, i)
          /\ FLe(Precomputed(RootRow, i), slider.value)
          /\ IsNaN(source.hl_color[i])
    /\ \E i \in DOMAIN source.hl_color :
          /\ Precomputed(RootRow, i) = slider.value
          /\ source.hl_color[i] = slider.value

\* the numbers of a column, its NaN entries left out
Numbers(column) == SelectSeq(column, LAMBDA x : ~IsNaN(x))

\* C20: after the hover script and after the slider script have rewritten
\* the highlight column, low and high of the colour mapper are the smallest
\* and the largest highlight the column now holds.
C20_MapperSpansHighlights ==
    (/\ args.view = "link_plot"
     /\ event.kind \in {"hover", "slider"}
     /\ Numbers(source.hl_color) # <<>>) =>
        /\ mapper.low = FMin(Numbers(source.hl_color))
        /\ mapper.high = FMax(Numbers(source.hl_color))
(***************************************************************************)
(* Claims about the rows of the embedding snapshot `orig` of the          *)
(* thresholding view, checked under Spec.                                  *)
(***************************************************************************)
\* bin j of the histogram snapshot ranges over the value v
BinRangeHolds(j, v) == FLe(source.l_edges[j], v) /\ FLe(v, source.r_edges[j])

\* C15: after any run of the threshold script, started by an input or by the
\* slider, every row of the embedding snapshot carries the category of a bin
\* of the histogram snapshot whose range holds the row's value.
C15_RowCarriesCategoryOfItsBin ==
    AfterScript =>
        \A ix \in DOMAIN orig.category :
            \E j \in DOMAIN source.hist :
                /\ BinRangeHolds(j, orig.values[ix])
                /\ orig.category[ix] = source.category[j]

\* C16: in every state the values column of the embedding snapshot holds the
\* values of the dataset's column at the positions it had at construction.
C16_ValuesKeepTheirPositions ==
    args.view = "thresholding_hist" => orig.values = adata.obs
(***************************************************************************)
(* Claim about the change notifications of the scripts, checked under     *)
(* SpecHist.                                                               *)
(***************************************************************************)
\* in the steps of an event, a change.emit() of snapshot s comes after the
\* last write into s
NotifiedLast(log, s) ==
    \E k \in DOMAIN log :
        /\ log[k] = Emit(s)
        /\ \A h \in DOMAIN log : log[h] = Write(s) => h < k

\* C19: every run of a script that changes a snapshot (the embedding
\* snapshot orig, the histogram or highlight snapshot source, the root
\* snapshot col_ds) emits a change notification for that snapshot after its
\* last write into it.
C19_ChangedSnapshotIsNotified ==
    [][/\ orig' # orig => NotifiedLast(event'.log, "orig")
       /\ source' # source => NotifiedLast(event'.log, "source")
       /\ col_ds' # col_ds => NotifiedLast(event'.log, "col")]_vars
(***************************************************************************)
(* interactive_hist with one key and the rows grouped by one observation  *)
(* column: a histogram, an `orig` and a `source` snapshot per displayed   *)
(* group, and one slider bound to the rebinning script of every group.    *)
(* A group of rows is a view of the dataset: the list of its row numbers. *)
(***************************************************************************)
MaxGroupRows == 3   \* rows of a generated dataset of the grouped histogram

\* list(set(..)): the values of a set, in one of the orders a set lists them
Orders(S) == {q \in [1..Cardinality(S) -> S] : Range(q) = S}

AllRows(a) == [i \in 1..Len(a.obs.key) |-> i]

\* adata[adata.obs[g] == v]
RowsOf(a, v) == SelectSeq(AllRows(a), LAMBDA i : a.obs.group[i] = v)

\* adatas and combs of _create_adata_groups for groups=[g]
GroupAdatas(a, display_all, order) ==
    [k \in DOMAIN order |-> RowsOf(a, order[k])] \o <<AllRows(a)>>
        \o (IF display_all THEN <<AllRows(a)>> ELSE <<>>)

GroupCombs(display_all, order) == order \o (IF display_all THEN <<"all">> ELSE <<>>)

\* zip(*ad_gs)
Zipped(adatas, combs) ==
    [k \in 1..Min2(Len(adatas), Len(combs)) |-> [rows |-> adatas[k], group_vs |-> combs[k]]]

create_adata_groups(a, groups, display_all, order) ==
    IF groups = None
    THEN <<[rows |-> AllRows(a), group_vs |-> "all"]>>
    ELSE Zipped(GroupAdatas(a, display_all, order), GroupCombs(display_all, order))

\* filter(lambda ad_g: ad_g[0].n_obs > 0, ..)
Displayed(ad_gs) == SelectSeq(ad_gs, LAMBDA g : Len(g.rows) > 0)

\* ad.obs[key]
KeyOf(a, rows) == Array([k \in DOMAIN rows |-> a.obs.key[rows[k]]])

GroupOrigs(a, shown) == Array([j \in DOMAIN shown |-> [values |-> KeyOf(a, shown[j].rows)]])

\* bins='auto', the default of both views, as a setting of the model; an
\* integer setting is the number of bins
Auto == 0

RECURSIVE CeilLog2(_)
\* the least k with 2^k >= n
CeilLog2(n) == IF n <= 1 THEN 0 ELSE 1 + CeilLog2((n + 1) \div 2)

\* the number of bins numpy takes for bins='auto': one for a sample of one
\* value (both estimated widths are 0), and else the range over the smaller
\* of the Freedman-Diaconis and the Sturges width, rounded up.  For the
\* samples of the model, at most three rows of two values, the Sturges
\* width ptp / (log2(n) + 1) is the smaller one.
AutoBins(values) ==
    IF values = <<>> \/ FMin(values) = FMax(values) THEN 1
    ELSE CeilLog2(Len(values)) + 1

\* len(hist) of np.histogram(orig, density=True, bins=bins)
BinsFor(b, values) == IF b = Auto THEN AutoBins(values) ELSE b

GroupSources(a, shown, b) ==
    Array([j \in DOMAIN shown |->
              NpHistogram(KeyOf(a, shown[j].rows), BinsFor(b, KeyOf(a, shown[j].rows)))])

\* Slider(.., value=0, ..), then slider.value = len(hist) for every group
GroupSliderValue(sources) == IF sources = <<>> THEN 0 ELSE Len(sources[Len(sources)].hist)

RECURSIVE GroupSliderEnd(_, _)
\* max_bins = max(max_bins, slider.value) for every group, then
\* slider.end = max_bins
GroupSliderEnd(max_bins, sources) ==
    IF sources = <<>> THEN max_bins
    ELSE GroupSliderEnd(Max2(max_bins, Len(sources[1].hist)), Tail(sources))

GroupSlider(max_bins, sources) ==
    [start |-> 1, end |-> GroupSliderEnd(max_bins, sources), value |-> GroupSliderValue(sources)]

GroupsStart(a, b, max_bins, groups, display_all, order) ==
    /\ adata = a
    /\ args = [view |-> "interactive_hist_groups", bins |-> b, max_bins |-> max_bins,
               groups |-> groups, display_all |-> display_all, order |-> order]
    /\ orig = GroupOrigs(a, Displayed(create_adata_groups(a, groups, display_all, order)))
    /\ source = GroupSources(a, Displayed(create_adata_groups(a, groups, display_all, order)), b)
    /\ slider = GroupSlider(max_bins,
                     GroupSources(a, Displayed(create_adata_groups(a, groups, display_all, order)), b))
    /\ inputs = <<>>
    /\ mapper = None
    /\ col_ds = None
    /\ result = None
    /\ event = NoEvent

\* the key column in tenths, not all of one value, and the group column with
\* both groups
GroupTenths == {t \in [1..MaxGroupRows -> {0, 3 * MaxStep}] : t[1] # t[MaxGroupRows]}
GroupColumns == {c \in [1..MaxGroupRows -> Groups] : c[1] = "g0" /\ c[MaxGroupRows] = "g1"}

GroupsInit ==
    \E t \in GroupTenths, c \in GroupColumns, b \in 1..MaxBins, display_all \in BOOLEAN :
        \E groups \in {None, "group"}, order \in Orders(Range(c)) :
            /\ (groups = None => display_all /\ order[1] = "g0")
            /\ GroupsStart([obs |-> [key |-> ToDoubles(t), group |-> c]], b, DefaultMaxBins,
                           groups, display_all, order)

\* the rebinning script of group j ran
GroupRebinned(j, n) ==
    [orig |-> SortedInPlace(orig[j], InterHist(orig[j].values, n)),
     source |-> Assigned(source[j], InterHist(orig[j].values, n))]

RECURSIVE Repeated(_, _)
Repeated(log, k) == IF k = 0 THEN <<>> ELSE log \o Repeated(log, k - 1)

\* slider.js_on_change('value', *callbacks): the callbacks of the groups, in
\* the order of the groups
GroupsSliderChange(n) ==
    /\ args.view = "interactive_hist_groups"
    /\ event.count < MaxEvents
    /\ n \in slider.start..Min2(slider.end, MaxBins)
    /\ n # slider.value
    /\ orig' = Array([j \in DOMAIN orig |-> GroupRebinned(j, n).orig])
    /\ source' = Array([j \in DOMAIN source |-> GroupRebinned(j, n).source])
    /\ slider' = [slider EXCEPT !.value = n]
    /\ event' = Ran("slider", Repeated(RebinLog, Len(source)))
    /\ UNCHANGED <<adata, args, inputs, mapper, col_ds, result>>

GroupsNext == \E n \in 1..MaxBins : GroupsSliderChange(n)

(***************************************************************************)
(* The widgets of both views and the scripts bound to them.               *)
(***************************************************************************)
BindingInit == Init \/ GroupsInit

BindingNext == Next \/ GroupsNext

SpecBinding == BindingInit /\ [][BindingNext]_vars
(***************************************************************************)
(* Claim about the order of the bound scripts, checked under SpecBinding. *)
(***************************************************************************)
\* the category of the first pair of inputs, in the order of the script,
\* whose numbers contain the trimmed interval of bin i as the snapshot now
\* holds it
ScriptContaining(i) ==
    IF \E c \in DOMAIN inputs : Contains(c, i)
    THEN args.categories[CHOOSE c \in DOMAIN inputs :
            Contains(c, i) /\ \A d \in 1..(c - 1) : ~Contains(d, i)].name
    ELSE "default"

\* C18: a slider change of the thresholding view runs the rebinning script
\* and then the threshold script: after it the histogram has the slider's
\* number of bins, every bin has the category computed from its new edges,
\* and every row listed by a new bin carries that bin's category.  A slider
\* change of the histogram view runs the rebinning script of every displayed
\* group: after it every group's histogram has the slider's number of bins,
\* over the values of that group.
C18_SliderRunsBoundScriptsInOrder ==
    /\ (args.view = "thresholding_hist" /\ event.kind = "slider") =>
          /\ Len(source.hist) = slider.value
          /\ \A i \in 1..Len(source.hist) :
                /\ source.category[i] = ScriptContaining(i)
                /\ \A ix \in Range(source.indices[i]) :
                      orig.category[ix] = source.category[i]
    /\ (args.view = "interactive_hist_groups" /\ event.kind = "slider") =>
          \A j \in DOMAIN source :
              /\ Len(source[j].hist) = slider.value
              /\ Len(source[j].r_edges) = slider.value
              /\ source[j].l_edges[1] = FMin(orig[j].values)
              /\ SumSeq(Array([i \in DOMAIN source[j].indices |->
                                  Len(source[j].indices[i])])) <= Len(orig[j].values)

\* C18: a slider change of the thresholding view that raised the number of
\* bins and left bins of two categories, with a row in a bin of a declared
\* category
C18_Witness ==
    /\ args.view = "thresholding_hist"
    /\ event.kind = "slider"
    /\ slider.value > args.bins
    /\ \E i, k \in 1..Len(source.hist) : source.category[i] # source.category[k]
    /\ \E i \in 1..Len(source.hist) :
          /\ source.category[i] # "default"
          /\ source.indices[i] # <<>>

\* C18: a slider change of the histogram view with three displayed groups
\* that changed the number of bins of each
C18_GroupsWitness ==
    /\ args.view = "interactive_hist_groups"
    /\ event.kind = "slider"
    /\ Len(source) = 3
    /\ \A j \in DOMAIN source : Len(source[j].hist) # args.bins
(***************************************************************************)
(* The five assemblers as calls: interactive_hist, thresholding_hist,     *)
(* gene_trend, highlight_de and link_plot run on the caller's dataset and *)
(* end by raising or by handing the layout to the output step.  A call is *)
(* a chain of steps over a frame: the status of the call, its error, the  *)
(* output steps performed so far, the figures of the layout, and the      *)
(* caller's dataset as the call leaves it.  A text is the sequence of its *)
(* characters.                                                             *)
(***************************************************************************)
MaxCells == 2       \* cells of a generated dataset of an assembler call
MaxExpr == 1        \* largest expression value of such a dataset

Frame(a) == [status |-> "running", error |-> "", outputs |-> <<>>, figs |-> <<>>, adata |-> a]

\* raise <error>: the frame of a call that ended in the error
Raise(fr, error) == [fr EXCEPT !.status = "raised", !.error = error]

\* the statements after a raise are not run
Then(fr, Step(_)) == IF fr.status = "raised" THEN fr ELSE Step(fr)

\* a check that raises when the condition fails
Check(fr, ok, error) == IF ok THEN fr ELSE Raise(fr, error)

Html == <<".", "h", "t", "m", "l">>

\* str.endswith
EndsWith(text, suffix) ==
    /\ Len(text) >= Len(suffix)
    /\ SubSeq(text, Len(text) - Len(suffix) + 1, Len(text)) = suffix

\* save=None, and save=<text>
NoPath == [given |-> FALSE, text |-> <<>>]
Path(text) == [given |-> TRUE, text |-> text]

\* bokeh_save(plot, path) and show(plot), as the output steps of a frame
Saved(fr, text) == [fr EXCEPT !.outputs = Append(@, [op |-> "save", path |-> text])]
Shown(fr) == [fr EXCEPT !.outputs = Append(@, [op |-> "show", path |-> <<>>])]

\* the output step that appends '.html' whatever the path, then shows too
SaveAndShow(fr, save) ==
    IF save.given THEN Shown(Saved(fr, save.text \o Html)) ELSE Shown(fr)

\* if save is not None: save = save if str(save).endswith('.html') else
\* str(save) + '.html'; bokeh_save(plot, save) else: show(plot)
SaveOrShow(fr, save) ==
    IF save.given
    THEN Saved(fr, IF EndsWith(save.text, Html) THEN save.text ELSE save.text \o Html)
    ELSE Shown(fr)

\* the function returns None after its output step
Return(fr) == [fr EXCEPT !.status = "returned"]

Output(fr, save) == Return(SaveOrShow(fr, save))

\* the texts given as save: none, a name, a name with the extension, with
\* another extension, with the extension inside, and the extension alone
SaveTexts ==
    {<<>>, <<"p">>, <<"p">> \o Html, <<"p", ".", "h", "t", "m">>, Html \o <<"p">>, Html}

Saves == {NoPath} \cup {Path(text) : text \in SaveTexts}

(***************************************************************************)
(* The dataset of a call: observation columns (a record, one sequence per *)
(* key), variable names and keys, the expression matrix X (one row per    *)
(* cell), and the keys of uns and obsm.  Cell k is of category k - 1 of   *)
(* the categorical column leiden.                                          *)
(***************************************************************************)
Categories == <<"0", "1">>
VarNames == <<"g1", "g2">>

\* the elements of a column at the listed positions
Pick(column, rows) == [k \in DOMAIN rows |-> column[rows[k]]]

\* a dataset object derived from dataset a: its rows of a, whether it owns
\* its data (a copy) or stands for the rows of a (a view), and the data
Derived(a, rows, own) ==
    [own |-> own, rows |-> rows,
     obs |-> [c \in DOMAIN a.obs |-> Pick(a.obs[c], rows)],
     X |-> Pick(a.X, rows),
     uns |-> a.uns]

\* adata[rows] with no copy: writes through it reach the dataset
Viewed(a, rows) == Derived(a, rows, FALSE)

\* adata[rows].copy() and adata.copy()
Copied(a, rows) == Derived(a, rows, TRUE)

\* a column with the values of a derived object written at its rows; the
\* rows of a column that did not exist hold NaN
Spliced(a, ad, key, values) ==
    [i \in 1..Len(a.X) |->
        IF \E k \in DOMAIN ad.rows : ad.rows[k] = i
        THEN values[CHOOSE k \in DOMAIN ad.rows : ad.rows[k] = i]
        ELSE IF key \in DOMAIN a.obs THEN a.obs[key][i] ELSE NaN]

\* ad.obs[key] = values: the derived object after the assignment
ObsAssigned(ad, key, values) ==
    [ad EXCEPT !.obs = [c \in (DOMAIN ad.obs) \cup {key} |->
                           IF c = key THEN values ELSE ad.obs[c]]]

\* ad.obs[key] = values: the dataset the object was derived from, after it
ObsReached(a, ad, key, values) ==
    IF ad.own THEN a
    ELSE [a EXCEPT !.obs = [c \in (DOMAIN a.obs) \cup {key} |->
                               IF c = key THEN Spliced(a, ad, key, values) ELSE a.obs[c]]]

\* ad.uns[key] = value, for the object and for the dataset
UnsAssigned(ad, key, value) ==
    [ad EXCEPT !.uns = [c \in (DOMAIN ad.uns) \cup {key} |->
                           IF c = key THEN value ELSE ad.uns[c]]]

UnsReached(a, ad, key, value) ==
    IF ad.own THEN a
    ELSE [a EXCEPT !.uns = [c \in (DOMAIN a.uns) \cup {key} |->
                               IF c = key THEN value ELSE a.uns[c]]]
\* a figure of the layout: its title and the legend entries drawn in it
Figure(title, drawn) == [title |-> title, drawn |-> drawn]

Drawn(fr, fig) == [fr EXCEPT !.figs = Append(@, fig)]

(***************************************************************************)
(* interactive_hist(adata, keys, max_bins=.., save=..) with groups=None   *)
(***************************************************************************)
\* key not in adata.obs.keys() and key not in adata.var.keys() and key not
\* in adata.var_names
KeyMissing(a, key) ==
    /\ key \notin DOMAIN a.obs
    /\ key \notin a.var_keys
    /\ key \notin Range(a.var_names)

RECURSIVE HistFigures(_, _)
\* for key in keys: one figure with the histogram of the key
HistFigures(fr, keys) ==
    IF keys = <<>> THEN fr
    ELSE HistFigures(Drawn(fr, Figure(keys[1], <<"all">>)), Tail(keys))

\* interactive_hist with the two checks after the output step
HistCheckedLast(a, x) ==
    Check(Check(SaveOrShow(HistFigures(Frame(a), x.keys), x.save),
                x.max_bins >= 1, "ValueError"),
          \A k \in DOMAIN x.keys : ~KeyMissing(a, x.keys[k]), "ValueError")

interactive_hist(a, x) ==
    Then(Then(Check(Frame(a), x.max_bins >= 1, "ValueError"),
              LAMBDA fr : Check(fr, \A k \in DOMAIN x.keys : ~KeyMissing(a, x.keys[k]),
                                "ValueError")),
         LAMBDA fr : Output(HistFigures(fr, x.keys), x.save))

(***************************************************************************)
(* thresholding_hist(adata, key, categories, basis=[basis], save=..)      *)
(***************************************************************************)
\* adata.obs[key] and adata.obsm[f'X_{bs}'] raise KeyError for a missing key
thresholding_hist(a, x) ==
    Then(Then(Check(Frame(a), x.key \in DOMAIN a.obs, "KeyError"),
              LAMBDA fr : Check(fr, x.basis \in a.obsm_keys, "KeyError")),
         LAMBDA fr : Output(Drawn(Drawn(fr, Figure(x.key, <<"category">>)),
                                  Figure(x.basis, <<"category">>)), x.save))

(***************************************************************************)
(* highlight_de(adata, basis=.., cell_keys=.., save=..)                   *)
(***************************************************************************)
highlight_de(a, x) ==
    Then(Then(Then(Check(Frame(a), "rank_genes_groups" \in DOMAIN a.uns, "ValueError"),
                   LAMBDA fr : Check(fr, \A k \in DOMAIN x.cell_keys :
                                             x.cell_keys[k] \in DOMAIN a.obs,
                                     "AssertionError")),
              LAMBDA fr : Check(fr, x.basis \in a.obsm_keys, "ValueError")),
         LAMBDA fr : Output(Drawn(fr, Figure(x.basis, Categories)), x.save))

(***************************************************************************)
(* link_plot(adata, key, subsample=.., distance=.., save=..) with         *)
(* subsample None or a name that is no strategy                           *)
(***************************************************************************)
\* the pseudotime sc.tl.dpt writes for the root cell i: the root at 0; the
\* model takes every other cell as not reached (inf)
DptFrom(n, i) == [j \in 1..n |-> IF j = i THEN Zero ELSE Infinity]

RECURSIVE DptRooted(_, _, _)
\* for i in range(n_obs): ad_tmp.uns['iroot'] = i; sc.tl.dpt(ad_tmp): the
\* pair of the dataset and of ad_tmp after the roots from i on
DptRooted(a, ad, i) ==
    IF i > Len(ad.rows) THEN [adata |-> a, ad |-> ad]
    ELSE DptRooted(
            ObsReached(UnsReached(a, ad, "iroot", i - 1), ad, "dpt_pseudotime",
                       DptFrom(Len(ad.rows), i)),
            ObsAssigned(UnsAssigned(ad, "iroot", i - 1), "dpt_pseudotime",
                        DptFrom(Len(ad.rows), i)),
            i + 1)

\* the distance matrix: from X, or from ad_tmp = adata.copy() re-rooted at
\* every cell
Distances(fr, x) ==
    IF x.distance = "dpt"
    THEN [fr EXCEPT !.adata =
             DptRooted(fr.adata, Copied(fr.adata, [i \in 1..Len(fr.adata.X) |-> i]), 1).adata]
    ELSE fr

link_plot(a, x) ==
    Then(Then(Then(Then(Check(Frame(a), x.key \in DOMAIN a.obs, "AssertionError"),
                        LAMBDA fr : Check(fr, x.subsample = None, "ValueError")),
                   LAMBDA fr : Distances(fr, x)),
              LAMBDA fr : Check(fr, x.basis \in a.obsm_keys, "KeyError")),
         LAMBDA fr : Output(Drawn(Drawn(fr, Figure(x.key, Categories)),
                                  Figure(x.basis, <<"hl_color">>)), x.save))
(***************************************************************************)
(* gene_trend(adata, paths, genes, separate_paths=.., show_zero_counts=.., *)
(* use_raw=False, save=..) with path_key and color_key 'leiden'.  The     *)
(* frame also holds the loop's variables: data (the lists of the dict, a  *)
(* key never appended to being the empty list), adatas, row_figs and ad.  *)
(***************************************************************************)
EmptyData ==
    [expr |-> <<>>, dpt |-> <<>>, color |-> <<>>, x_test |-> <<>>, x_mean |-> <<>>,
     x_cov |-> <<>>]

TrendFrame(a) ==
    [status |-> "running", error |-> "", outputs |-> <<>>, figs |-> <<>>, adata |-> a,
     data |-> EmptyData, adatas |-> <<>>, row_figs |-> <<>>, ad |-> Copied(a, <<>>)]

\* np.in1d(adata.obs[path_key], path): the rows of the path
PathRows(a, path) ==
    SelectSeq([i \in 1..Len(a.X) |-> i], LAMBDA i : a.obs.leiden[i] \in Range(path))

\* ad.obs['dpt_pseudotime'].replace(np.inf, 1)
InfReplaced(column) == [k \in DOMAIN column |-> IF column[k] = Infinity THEN FromInt(1) ELSE column[k]]

\* ad = adata[path_ix].copy(); ad.obs['dpt_pseudotime'] = <the column, inf replaced>
PathData(fr, path) ==
    [fr EXCEPT
        !.ad = ObsAssigned(Copied(fr.adata, PathRows(fr.adata, path)), "dpt_pseudotime",
                   InfReplaced(Copied(fr.adata, PathRows(fr.adata, path)).obs.dpt_pseudotime)),
        !.adata = ObsReached(fr.adata, Copied(fr.adata, PathRows(fr.adata, path)),
                      "dpt_pseudotime",
                      InfReplaced(Copied(fr.adata, PathRows(fr.adata, path)).obs.dpt_pseudotime))]

\* ad[:, gene].X
GeneAt(gene) == CHOOSE g \in DOMAIN VarNames : VarNames[g] = gene
GeneExp(ad, gene) == [k \in DOMAIN ad.X |-> ad.X[k][GeneAt(gene)]]

\* ix = (gene_exp > 0), as the positions it selects
Positive(gene_exp) == SelectSeq([k \in DOMAIN gene_exp |-> k], LAMBDA k : gene_exp[k] > 0)

\* indexer = slice(None) if show_zero_counts else ix
Indexer(gene_exp, show_zero_counts) ==
    IF show_zero_counts THEN [k \in DOMAIN gene_exp |-> k] ELSE Positive(gene_exp)

\* gene_exp[rev_indexer] of the array already indexed
RevIndexed(kept, show_zero_counts) ==
    IF show_zero_counts THEN Pick(kept, Positive(kept)) ELSE kept

\* data[key].append(value)
DataAppended(fr, key, value) == [fr EXCEPT !.data[key] = Append(@, value)]

LastExpr(fr) == fr.data.expr[Len(fr.data.expr)]

\* pd.DataFrame(data, index=index) raises ValueError unless every list of
\* data has the length of the index
FrameFits(data, index) == \A key \in DOMAIN data : data[key] = <<>> \/ Len(data[key]) = Len(index)

\* _create_gt_fig(adatas, dataframe, ..): one pass per element of
\* zip(adatas, markers, dataframe.iterrows()); a pass reads the columns
\* x_test, x_mean, x_cov of the dataframe (KeyError without them)
create_gt_fig(fr, title, index) ==
    IF Min2(Len(fr.adatas), Len(index)) > 0 /\ fr.data.x_test = <<>>
    THEN Raise(fr, "KeyError")
    ELSE [fr EXCEPT !.row_figs =
             Append(@, Figure(title, SubSeq(index, 1, Min2(Len(fr.adatas), Len(index)))))]

\* the figure of the dataframe over the index, or the ValueError of the frame
FrameFigure(fr, title, index) ==
    IF FrameFits(fr.data, index) THEN create_gt_fig(fr, title, index)
    ELSE Raise(fr, "ValueError")

\* if separate_paths: the figure of the path, then adatas = [] and a new data
PathFigure(fr, x, gene, path) ==
    IF x.separate_paths
    THEN Then(FrameFigure(fr, gene, <<path>>),
              LAMBDA f : [f EXCEPT !.adatas = <<>>, !.data = EmptyData])
    ELSE fr

\* _smooth_expression(..) and the three appends, adatas.append(ad[indexer])
Smoothed(fr, path) ==
    [DataAppended(DataAppended(DataAppended(fr, "x_test", path), "x_mean", path),
                  "x_cov", path)
        EXCEPT !.adatas = Append(@, path)]

\* the body of `for path in paths`, from the expression of the gene on
Unit(fr, x, gene, path) ==
    Then(Then(Check(fr, fr.ad.rows # <<>>, "ValueError"),
              LAMBDA f : DataAppended(f, "expr",
                             Pick(GeneExp(f.ad, gene),
                                  Indexer(GeneExp(f.ad, gene), x.show_zero_counts)))),
         LAMBDA f :
            Then(Check(f, LastExpr(f) # <<>>, "ValueError"),
                 LAMBDA g :
                    IF RevIndexed(LastExpr(g), x.show_zero_counts) = <<>>
                    THEN DataAppended(DataAppended(g, "dpt", path), "color", path)
                    ELSE PathFigure(
                            Smoothed(DataAppended(DataAppended(g, "dpt", path), "color", path),
                                     path),
                            x, gene, path)))

RECURSIVE TrendPaths(_, _, _, _)
\* for path in paths
TrendPaths(fr, x, gene, paths) ==
    IF paths = <<>> \/ fr.status = "raised" THEN fr
    ELSE TrendPaths(Unit(PathData(fr, paths[1]), x, gene, paths[1]), x, gene, Tail(paths))

RECURSIVE RowOf(_, _)
\* row(row_figs): the legend entries of the row figures from the k-th on
RowOf(row_figs, k) ==
    IF k > Len(row_figs) THEN <<>> ELSE row_figs[k].drawn \o RowOf(row_figs, k + 1)

\* after the paths of a gene: figs.append(row(row_figs)), or the figure of
\* the dataframe over all paths
GeneFigure(fr, x, gene) ==
    IF x.separate_paths
    THEN Drawn(fr, Figure(gene, RowOf(fr.row_figs, 1)))
    ELSE Then(FrameFigure(fr, gene, x.paths),
              LAMBDA f : Drawn(f, f.row_figs[Len(f.row_figs)]))

RECURSIVE TrendGenes(_, _, _)
\* for gene in genes: data = defaultdict(list); row_figs = []
TrendGenes(fr, x, genes) ==
    IF genes = <<>> \/ fr.status = "raised" THEN fr
    ELSE TrendGenes(
            Then(TrendPaths([fr EXCEPT !.data = EmptyData, !.row_figs = <<>>], x, genes[1],
                            x.paths),
                 LAMBDA f : GeneFigure(f, x, genes[1])),
            x, Tail(genes))

\* genes = list(np.array(genes)[genes_indicator])
GenesFound(genes) == SelectSeq(genes, LAMBDA g : g \in Range(VarNames))

gene_trend(a, x) ==
    Then(Then(Then(Check(TrendFrame(a),
                         \A p \in DOMAIN x.paths : Range(x.paths[p]) \subseteq Range(Categories),
                         "AssertionError"),
                   LAMBDA fr : Check(fr, "dpt_pseudotime" \in DOMAIN a.obs, "ValueError")),
              LAMBDA fr : TrendGenes(fr, x, GenesFound(x.genes))),
         LAMBDA fr : Output(fr, x.save))
(***************************************************************************)
(* The calls of the model: a dataset, the arguments of one assembler, and *)
(* the call itself as one step.                                            *)
(***************************************************************************)
\* f'X_{basis}'
ObsmKey(basis) == IF basis = "umap" THEN "X_umap" ELSE "X_pca"

NoColumn == <<>>

\* cell i is of category i - 1 (and of the categories again past the last)
LeidenColumn == [i \in 1..MaxCells |-> Categories[((i - 1) % Len(Categories)) + 1]]
CountsColumn == [i \in 1..MaxCells |-> FromInt(i - 1)]

\* the observation columns: leiden, n_counts and, when given, dpt_pseudotime
ObsOf(dpt) ==
    IF dpt = NoColumn
    THEN [leiden |-> LeidenColumn, n_counts |-> CountsColumn]
    ELSE [leiden |-> LeidenColumn, n_counts |-> CountsColumn, dpt_pseudotime |-> dpt]

Dataset(X, dpt, uns) ==
    [obs |-> ObsOf(dpt), var_keys |-> {"velocity_genes"}, var_names |-> VarNames, X |-> X,
     uns |-> uns, obsm_keys |-> {"X_umap"}]

NoUns == [key \in {} |-> 0]
DeUns == [rank_genes_groups |-> [params |-> [groupby |-> "leiden"]]]

\* a dataset with every cell expressing every gene, and a finite pseudotime
PlainX == [i \in 1..MaxCells |-> [g \in DOMAIN VarNames |-> MaxExpr]]
PlainDpt == [i \in 1..MaxCells |-> FromInt(i - 1)]
InfDpt == [i \in 1..MaxCells |-> IF i = MaxCells THEN Infinity ELSE Zero]

CallPending == [status |-> "pending", error |-> "", outputs |-> <<>>, figs |-> <<>>]

CallStart(a, x) ==
    /\ adata = a
    /\ args = x
    /\ orig = None
    /\ source = None
    /\ slider = None
    /\ inputs = None
    /\ mapper = None
    /\ col_ds = None
    /\ result = CallPending
    /\ event = [kind |-> "none", before |-> a]

HistCalls ==
    \E max_bins \in {0, 1, DefaultMaxBins}, save \in Saves :
        \E keys \in {<<"n_counts">>, <<"g1", "velocity_genes">>, <<"n_counts", "nokey">>,
                     <<"nokey">>} :
            CallStart(Dataset(PlainX, PlainDpt, NoUns),
                      [view |-> "call", assembler |-> "interactive_hist",
                       keys |-> keys, max_bins |-> max_bins, save |-> save])

ThreshCalls ==
    \E key \in {"n_counts", "nokey"}, basis \in {"umap", "pca"}, save \in Saves :
        CallStart(Dataset(PlainX, PlainDpt, NoUns),
                  [view |-> "call", assembler |-> "thresholding_hist",
                   key |-> key, basis |-> ObsmKey(basis), save |-> save])

DeCalls ==
    \E uns \in {NoUns, DeUns}, basis \in {"umap", "pca"}, save \in Saves :
        \E cell_keys \in {<<>>, <<"n_counts">>, <<"nokey">>} :
            CallStart(Dataset(PlainX, PlainDpt, uns),
                      [view |-> "call", assembler |-> "highlight_de",
                       cell_keys |-> cell_keys, basis |-> ObsmKey(basis), save |-> save])

LinkCalls ==
    \E key \in {"leiden", "nokey"}, basis \in {"umap", "pca"}, save \in Saves :
        \E subsample \in {None, "bogus"}, distance \in {"2", "dpt"}, dpt \in {NoColumn, PlainDpt} :
            CallStart(Dataset(PlainX, dpt, NoUns),
                      [view |-> "call", assembler |-> "link_plot", key |-> key,
                       subsample |-> subsample, distance |-> distance,
                       basis |-> ObsmKey(basis), save |-> save])

\* the expression matrices, the pseudotime columns (none, finite, and with
\* an inf), the paths and the gene lists of the calls of gene_trend
TrendX == [1..MaxCells -> [DOMAIN VarNames -> 0..MaxExpr]]
TrendDpt == {NoColumn, PlainDpt, InfDpt}
TrendPathLists == {<<<<"0">>, <<"1">>>>, <<<<"0", "1">>>>, <<<<"0">>, <<"9">>>>}
TrendGeneLists == {<<"g1">>, <<"g1", "g2">>, <<"nogene", "g2">>}

TrendCalls ==
    \E X \in TrendX, dpt \in TrendDpt, paths \in TrendPathLists, genes \in TrendGeneLists :
        \E separate_paths \in BOOLEAN, show_zero_counts \in BOOLEAN, save \in Saves :
            CallStart(Dataset(X, dpt, NoUns),
                      [view |-> "call", assembler |-> "gene_trend", paths |-> paths,
                       genes |-> genes, separate_paths |-> separate_paths,
                       show_zero_counts |-> show_zero_counts, save |-> save])

CallInit == HistCalls \/ ThreshCalls \/ DeCalls \/ LinkCalls \/ TrendCalls

\* the call ended with frame fr: its outcome, and the dataset as it left it
Called(fr) ==
    /\ result' = [status |-> fr.status, error |-> fr.error, outputs |-> fr.outputs,
                  figs |-> fr.figs]
    /\ adata' = fr.adata
    /\ event' = [event EXCEPT !.kind = "call"]
    /\ UNCHANGED <<args, orig, source, slider, inputs, mapper, col_ds>>

Callable(name) == args.view = "call" /\ args.assembler = name /\ result.status = "pending"

CallInteractiveHist == Callable("interactive_hist") /\ Called(interactive_hist(adata, args))

CallThresholdingHist == Callable("thresholding_hist") /\ Called(thresholding_hist(adata, args))

CallHighlightDe == Callable("highlight_de") /\ Called(highlight_de(adata, args))

CallLinkPlot == Callable("link_plot") /\ Called(link_plot(adata, args))

CallGeneTrend == Callable("gene_trend") /\ Called(gene_trend(adata, args))

CallNext ==
    \/ CallInteractiveHist
    \/ CallThresholdingHist
    \/ CallHighlightDe
    \/ CallLinkPlot
    \/ CallGeneTrend

SpecCall == CallInit /\ [][CallNext]_vars
(***************************************************************************)
(* Claims about the calls of the assemblers, checked under SpecCall.      *)
(***************************************************************************)
AfterCall == args.view = "call" /\ result.status # "pending"
Completed == args.view = "call" /\ result.status = "returned"

\* C11: a call of an assembler that completes performs exactly one output
\* step: with a save path one save and no show, to the path itself when it
\* ends with '.html' and to the path with '.html' appended when it does not;
\* without a save path one show and no save.
C11_OneOutputPerCompletedCall ==
    Completed =>
        /\ Len(result.outputs) = 1
        /\ args.save.given =>
              /\ result.outputs[1].op = "save"
              /\ EndsWith(result.outputs[1].path, Html)
              /\ EndsWith(args.save.text, Html) => result.outputs[1].path = args.save.text
              /\ ~EndsWith(args.save.text, Html) =>
                    result.outputs[1].path = args.save.text \o Html
        /\ ~args.save.given => result.outputs[1].op = "show"

\* C11: a completed call of gene_trend saved to a path that holds '.html'
\* but does not end with it
C11_Witness ==
    /\ Completed
    /\ args.assembler = "gene_trend"
    /\ args.save.given
    /\ args.save.text = Html \o <<"p">>
    /\ result.outputs = <<[op |-> "save", path |-> Html \o <<"p">> \o Html]>>

\* C11: a completed call of link_plot saved to a path that ends with '.html'
C11_UnchangedPathWitness ==
    /\ Completed
    /\ args.assembler = "link_plot"
    /\ args.save.given
    /\ EndsWith(args.save.text, Html)
    /\ result.outputs[1].path = args.save.text

\* C12: after a call of an assembler, completed or failed, the caller's
\* dataset is the dataset as it was before the call.
C12_DatasetIsNotMutated == AfterCall => adata = event.before

\* C12: a completed call of gene_trend on a dataset with an inf pseudotime in
\* a path, which the call replaced in its copy
C12_Witness ==
    /\ Completed
    /\ args.assembler = "gene_trend"
    /\ \E i \in 1..MaxCells : event.before.obs.dpt_pseudotime[i] = Infinity
    /\ result.figs # <<>>

\* C12: a completed call of link_plot with the dpt distance, which re-rooted
\* its copy at every cell
C12_DptWitness ==
    /\ Completed
    /\ args.assembler = "link_plot"
    /\ args.distance = "dpt"

\* the inputs the validation rejects
Rejected ==
    \/ /\ args.assembler = "interactive_hist"
       /\ \/ args.max_bins < 1
          \/ \E k \in DOMAIN args.keys : KeyMissing(event.before, args.keys[k])
    \/ /\ args.assembler = "gene_trend"
       /\ "dpt_pseudotime" \notin DOMAIN event.before.obs
    \/ /\ args.assembler = "highlight_de"
       /\ \/ "rank_genes_groups" \notin DOMAIN event.before.uns
          \/ args.basis \notin event.before.obsm_keys

\* C13: a call of interactive_hist with max_bins < 1 or with a key found in
\* none of obs, var and var_names, a call of gene_trend on a dataset without
\* the pseudotime column, and a call of highlight_de on a dataset without
\* DE results or with an embedding the dataset does not hold, end in an
\* error with no output step performed.
C13_RejectedCallHasNoOutput ==
    (AfterCall /\ Rejected) => result.status = "raised" /\ result.outputs = <<>>

\* C13: a failed call of interactive_hist whose max_bins is valid and whose
\* second key is found nowhere
C13_Witness ==
    /\ AfterCall
    /\ args.assembler = "interactive_hist"
    /\ args.max_bins >= 1
    /\ Len(args.keys) = 2
    /\ ~KeyMissing(event.before, args.keys[1])
    /\ KeyMissing(event.before, args.keys[2])
    /\ result.status = "raised"

\* the genes of the call found in the dataset, and the cells of a path
FoundGenes == SelectSeq(args.genes, LAMBDA g : g \in Range(VarNames))
CellsOf(path) == {i \in 1..MaxCells : event.before.obs.leiden[i] \in Range(path)}

\* the (gene, path) unit has no nonzero expression
ZeroUnit(gene, path) == \A i \in CellsOf(path) : event.before.X[i][GeneAt(gene)] = 0

\* C14: a call of gene_trend that passes the validation and has a (gene,
\* path) unit with no nonzero expression completes, with one output and one
\* figure per gene that draws the paths of the gene's other units.
C14_ZeroUnitIsSkipped ==
    (/\ AfterCall
     /\ args.assembler = "gene_trend"
     /\ \A p \in DOMAIN args.paths : Range(args.paths[p]) \subseteq Range(Categories)
     /\ "dpt_pseudotime" \in DOMAIN event.before.obs
     /\ \E g \in DOMAIN FoundGenes, p \in DOMAIN args.paths :
           ZeroUnit(FoundGenes[g], args.paths[p])) =>
        /\ result.status = "returned"
        /\ Len(result.outputs) = 1
        /\ Len(result.figs) = Len(FoundGenes)
        /\ \A g \in DOMAIN result.figs :
              result.figs[g].drawn =
                  SelectSeq(args.paths, LAMBDA path : ~ZeroUnit(FoundGenes[g], path))
(***************************************************************************)
(* Claims about the dicts of the caller of _smooth_expression, checked    *)
(* under SpecSmooth.                                                       *)
(***************************************************************************)
\* the call was made, in any mode, and the state holds what it left
AfterSmooth == args.view = "_smooth_expression" /\ event.kind = "call"

\* C21: after _smooth_expression evaluated an expression, kernel_params and
\* kernel_default_params hold the same entries as before the call.
C21_DictsHoldTheirEntries ==
    AfterSmooth =>
        /\ args.kernel_params = event.before.kernel_params
        /\ args.kernel_default_params = event.before.kernel_default_params

\* C21: a leaf name that occurs more than once in one expression resolves at
\* every occurrence to a kernel of its declared type: an expression over
\* declared leaves that repeats a leaf builds the tree of the declared
\* kernels.
C21_RepeatedLeafKeepsItsType ==
    (/\ AfterGp
     /\ Combinable(args.kernel_expr)
     /\ LeafNames(args.kernel_expr) \subseteq DOMAIN event.before.kernel_params
     /\ args.kernel_expr.node = "BinOp"
     /\ args.kernel_expr.left = args.kernel_expr.right)
        => result.kernel = ExpectedTree(args.kernel_expr)
(***************************************************************************)
(* Claims about the columns of the histogram snapshot of the thresholding *)
(* view, checked under Spec.                                               *)
(***************************************************************************)
\* C22: in every state of the thresholding view, all columns of the
\* histogram snapshot (density, left edges, right edges, category, index
\* lists) have one length, the current number of bins: the value of the
\* slider.
C22_ColumnsHaveOneLength ==
    args.view = "thresholding_hist" =>
        \A c \in DOMAIN source : Len(source[c]) = slider.value
(***************************************************************************)
(* The colour select of _create_gt_fig: _get_mappers builds a mapper per  *)
(* continuous observation column and per gene, _add_color_select a colour *)
(* bar over the mapper of the colour key and a Select bound to the script *)
(* of _inter_color_code.  A mapper is an object the script reaches by     *)
(* reference: `mapper` holds the objects of cmaps under their column      *)
(* names, and the colour bar and the glyph of the renderer hold the name  *)
(* of the object they refer to.  The snapshot holds the columns the       *)
(* script reads.                                                           *)
(***************************************************************************)
\* a dataset with the categorical column `cluster`, the continuous columns
\* `score` and `time`, and the variable `gene`
ColorData(n, score, time, x) ==
    [n_obs |-> n,
     obs |-> [cluster |-> [dtype |-> "category", categories |-> <<0>>,
                           values |-> [i \in 1..n |-> 0]],
              score |-> [dtype |-> "int64", categories |-> <<>>, values |-> score],
              time |-> [dtype |-> "int64", categories |-> <<>>, values |-> time]],
     var_names |-> <<"gene">>,
     X |-> <<x>>,
     uns |-> <<>>]

\* filter(lambda c: adata.obs[c].dtype.name != 'category', adata.obs.columns)
ContinuousColumns(a) == {c \in DOMAIN a.obs : ~IsCategorical(a.obs[c])}

\* mappers = {c: {'field': c, 'transform': _create_mapper(adata, c)} ..}
Mappers(a, genes) ==
    [c \in ContinuousColumns(a) \cup genes |->
        [field |-> c, transform |-> create_mapper(a, c, FALSE).mapper]]

\* df[k] = list(adata.obs[k].astype(float)), and df[gene] = adata.X[:, ix]
MapperColumns(a, genes) ==
    [c \in ContinuousColumns(a) \cup genes |->
        IF c \in genes THEN a.X[VarIndex(a, c)] ELSE a.obs[c].values]

\* _get_mappers(adata, df, genes, use_raw=False)
get_mappers(a, genes) == [df |-> MapperColumns(a, genes), mappers |-> Mappers(a, genes)]

\* the glyph of the renderer: color, fill_color and line_color are one
\* {field, transform}
Glyph(field, transform) == [field |-> field, transform |-> transform]

\* ColorBar(color_mapper=mappers[key]['transform'], ..)
ColorBar(key) == [color_mapper |-> key]

\* Select(value=key, options=list(mappers.keys()), callback=callback)
Select(key, mappers) == [value |-> key, options |-> DOMAIN mappers]

\* _add_color_select(key, fig, [renderers[-1]], source, mappers)
ColorStart(a, key, got) ==
    /\ adata = a
    /\ args = [view |-> "color_select", key |-> key]
    /\ orig = None
    /\ source = got.df
    /\ slider = Select(key, got.mappers)
    /\ inputs = None
    /\ mapper = got.mappers
    /\ col_ds = [color_bar |-> ColorBar(key), glyph |-> Glyph(key, key)]
    /\ result = None
    /\ event = NoEvent

ColorKeys == {"score", "time", "gene"}

ColorInit ==
    \E n \in 1..MaxObs :
        \E score \in [1..n -> 0..MaxScore], time \in [1..n -> 0..MaxScore],
           x \in [1..n -> 0..MaxScore], key \in ColorKeys :
            ColorStart(ColorData(n, score, time, x), key,
                       get_mappers(ColorData(n, score, time, x), {"gene"}))

\* color_bar.color_mapper.low = low; .high = high; .palette =
\* transform.palette: the writes go to the object the colour bar refers to
BarWritten(cmaps, bar, low, high, palette) ==
    [cmaps EXCEPT ![bar].transform.low = low,
                  ![bar].transform.high = high,
                  ![bar].transform.palette = palette]

ColorSelectLog == <<Write("renderers"), Write("color_bar"), Write("color_bar"),
                    Write("color_bar"), Emit("source")>>

\* the script of _inter_color_code, for cb_obj.value = c
SelectChange(c) ==
    /\ args.view = "color_select"
    /\ event.count < MaxEvents
    /\ c \in slider.options
    /\ c # slider.value
    /\ slider' = [slider EXCEPT !.value = c]
    /\ col_ds' = [col_ds EXCEPT !.glyph = Glyph(c, c)]
    /\ mapper' = BarWritten(mapper, col_ds.color_bar.color_mapper,
                            MinOf(source[c]), MaxOf(source[c]),
                            mapper[c].transform.palette)
    /\ event' = Ran("select", ColorSelectLog)
    /\ UNCHANGED <<adata, args, orig, source, inputs, result>>

ColorNext == \E c \in ColorKeys : SelectChange(c)

SpecColor == ColorInit /\ [][ColorNext]_vars

(***************************************************************************)
(* Claims about the colour-select script, checked under SpecColor.        *)
(***************************************************************************)
\* the mapper _create_mapper built for column c
BuiltMapper(c) == create_mapper(adata, c, FALSE).mapper

\* C23: in every state reachable by any sequence of selections, the
\* continuous mapper built for each column has the low and high bounds and
\* the palette it was built with for that column, and the colour bar and the
\* renderer use the column selected.
C23_MappersKeepBoundsAndPalette ==
    args.view = "color_select" =>
        /\ \A c \in DOMAIN mapper :
              /\ mapper[c].transform.low = BuiltMapper(c).low
              /\ mapper[c].transform.high = BuiltMapper(c).high
              /\ mapper[c].transform.palette = BuiltMapper(c).palette
        /\ col_ds.glyph = Glyph(slider.value, slider.value)
(***************************************************************************)
(* The bin-count sliders of both views over the bins settings a caller    *)
(* can give: a number of bins, also one above the end the thresholding    *)
(* view declares, and bins='auto', for which every group of the histogram *)
(* view gets the number of bins of its own sample.                        *)
(***************************************************************************)
\* max_bins of interactive_hist: the least value the check at line 410
\* lets through, and the default
MaxBinsSettings == {1, DefaultMaxBins}

AutoGroupsInit ==
    \E t \in GroupTenths, c \in GroupColumns, max_bins \in MaxBinsSettings,
       display_all \in BOOLEAN :
        \E groups \in {None, "group"}, order \in Orders(Range(c)) :
            /\ (groups = None => display_all /\ order[1] = "g0")
            /\ GroupsStart([obs |-> [key |-> ToDoubles(t), group |-> c]], Auto, max_bins,
                           groups, display_all, order)

\* thresholding_hist with a bins setting above the end of its slider
ManyBinsInit ==
    \E tenths \in ThreshTenths :
        /\ tenths[1] = 0
        /\ ThreshStart(ToDoubles(tenths), ThreshSliderEnd + 1,
                       [view |-> "thresholding_hist", bins |-> ThreshSliderEnd + 1,
                        categories |-> Declared, palette |-> 1])

SliderInit == BindingInit \/ AutoGroupsInit \/ ManyBinsInit

SliderNext == BindingNext

SpecSlider == SliderInit /\ [][SliderNext]_vars

(***************************************************************************)
(* Claims about the bin-count slider, checked under SpecSlider.           *)
(***************************************************************************)
\* the assembler of one of the two views has built the plot, and no widget
\* has changed yet
Built ==
    /\ args.view \in {"thresholding_hist", "interactive_hist_groups"}
    /\ event.kind = "none"

\* C24: in both the histogram view and the thresholding view, once the
\* assembler has built the plot the value of the slider lies within its
\* declared range, start <= value <= end, for every dataset and every bins
\* setting.
C24_SliderValueWithinRange ==
    Built => slider.start <= slider.value /\ slider.value <= slider.end

\* C25: in the histogram view with several groups on one slider, at
\* construction and after every slider change the histogram of every
\* displayed group has as many bins as the value of the slider.
C25_GroupsHaveSliderBins ==
    args.view = "interactive_hist_groups" =>
        \A j \in DOMAIN source : Len(source[j].hist) = slider.value
(***************************************************************************)
(* Claims about what the distance-highlight scripts write, checked under  *)
(* SpecLink.                                                               *)
(***************************************************************************)
\* the snapshot and the mapper as link_plot built them from the dataset
BuiltLink == LinkSource(adata, args.highlight_only)

\* C26: after any sequence of hover events and cutoff-slider changes every
\* distance column of the snapshot holds exactly the values computed at
\* plot-construction time; of the snapshot, the stored root and the mapper,
\* only the highlight column, the stored root and the upper bound of the
\* mapper are ever written.
C26_DistancesAreNeverWritten ==
    args.view = "link_plot" =>
        /\ source.columns = BuiltLink.columns
        /\ source.hl_key = BuiltLink.hl_key
        /\ DOMAIN source = DOMAIN BuiltLink
        /\ mapper.low = FMin(BuiltLink.columns[start_ix])
        /\ DOMAIN col_ds = {"value"}

\* C26: a slider change after a hover over a row other than row 0, after
\* which the highlight column differs from the distance column it was
\* computed from
C26_Witness ==
    /\ args.view = "link_plot"
    /\ event.kind = "slider"
    /\ event.hovered # 0
    /\ \E i \in DOMAIN source.hl_color :
          /\ IsNaN(source.hl_color[i])
          /\ ~IsNaN(source.columns[PropertyKey(col_ds.value)][i])

=============================================================================
